---- MODULE Spec2Model ----
(***************************************************************************)
(* Model of the agentic planning loop of Jarvis: commands/agent.py         *)
(* (think, ConfirmationHandler), with the confirmation entry point of      *)
(* main.py (set_user_confirmation), the executor of                        *)
(* commands/tool_executor.py (execute_tool) and the registry of            *)
(* commands/dynamic_tool_manager.py.                                       *)
(*                                                                         *)
(* Conventions                                                             *)
(*  - Confidence and thresholds are floats in the code; the model keeps    *)
(*    them in hundredths (0.8 is 80), so confidence / 10.0 is              *)
(*    confidence * 10.                                                     *)
(*  - CONFIDENCE_THRESHOLD_GO / _ASK are imported from config but no line  *)
(*    of the repository sets them, so Init draws them from a small set.    *)
(*  - The scratchpad is a list that think only appends to and joins into  *)
(*    the prompt of the black-box LLM.  The model keeps its image under    *)
(*    (length mod 2, most recent entry): an append flips the first and     *)
(*    replaces the second, so a step that appends is always told from a    *)
(*    step that leaves the list alone.                                     *)
(*  - executed_tools is only read through bool() and set(), so the model   *)
(*    keeps the set of names.                                              *)
(*  - One action is one stretch of think between two external calls        *)
(*    (LLM call, blocking wait on the handler, tool call).                 *)
(***************************************************************************)
EXTENDS Integers, Sequences, FiniteSets, TLC

\* ------------------------------------------------------------------ bounds
MaxPlanLen == 2
MaxRateLimits == 1
MaxBodyLen == 2
MaxLogLen == 3
MaxItems == 2
MaxTextLen == 3
MaxRequests == 3
MaxExtra == 2
MaxFetches == 3
MaxDismissed == 2
MaxIntervals == 5
MaxThreads == 3

\* --------------------------------------------------------- program constants
max_turns_failsafe == 15
max_consecutive_errors == 2
DefaultConfidence == 5

None == "None"
Junk == "<not-a-dict>"

DestructiveTools ==
  {"execute_shell_command", "delete_junk_file", "create_new_tool",
   "execute_generated_python_script"}

\* tool_definitions.TOOL_DEFINITIONS, the static registry; the model keeps
\* one harmless entry, one destructive entry and create_new_tool.
TOOL_DEFINITIONS ==
  {"search_and_browse", "execute_shell_command", "create_new_tool"}

\* The name create_new_tool is asked to register.
DynamicToolName == "new_tool"

\* Names a plan may carry: registered ones and one that is not registered.
ToolNames == {"search_and_browse", "execute_shell_command", "no_such_tool"}

\* Threads that may call set_response on a handler they hold.
Callers == {"ui", "other"}

\* Values the model may report in the "confidence" field.
ConfidenceValues == {2, 9}
ThresholdValues == {50, 80}

\* Strings think returns.
MSG_STUCK == "The agent got stuck and could not recover."
MSG_API == "The agent encountered repeated API errors."
MSG_CRITICAL == "Sorry, a critical error occurred while communicating with the AI"
MSG_UNDECIDED == "The agent could not decide on a next step."
MSG_FORMAT == "The agent failed to format its response correctly."
MSG_BUDGET == "The agent could not complete the task within the allowed number of steps."
MSG_FINAL == "<final answer>"

FailureMessages ==
  {MSG_STUCK, MSG_API, MSG_CRITICAL, MSG_UNDECIDED, MSG_FORMAT, MSG_BUDGET}

VARIABLES
  ai_response_text, final_answer,
  CONFIDENCE_THRESHOLD_GO,    \* config, hundredths
  CONFIDENCE_THRESHOLD_ASK,   \* config, hundredths
  pc,                         \* "loop" | "wait" | "exec" | "done" | "raised"
  turn_count,
  consecutive_error_count,
  internal_scratchpad,        \* [odd, last]
  executed_tools,             \* set of names appended so far
  response_kind,              \* what the most recent LLM call gave
  tool_calls,                 \* the plan while it is confirmed or executed
  is_destructive,
  model_confidence,           \* hundredths
  decision,                   \* None | "STOP" | "ASK" | "GO"
  user_confirmed,
  all_tool_outputs,           \* outputs of the plan being executed
  confirmation_handler,       \* global of commands/agent.py
  main_confirmation_handler,  \* global of main.py
  prompted,                   \* eel.prompt_user_for_confirmation sent this turn
  llm_calls,                  \* number of generate_content calls so far
  rate_limits,                \* number of ResourceExhausted failures so far
  memory,                     \* MemoryRecords written by add_memory
  result,                     \* value returned by think, None while running
  raised,                     \* exception that escaped think, None otherwise
  tool_output,                \* result of the most recent tool call of the turn
  DYNAMIC_TOOL_REGISTRY,      \* global of commands/dynamic_tool_manager.py
  session_tools,              \* names of the dict built at line 114
  ui_confirmation,            \* first argument the UI passed while think waits
  timed_out,                  \* event.wait ran into its timeout, no response
  setters,                    \* position of each caller inside set_response
  first_response,             \* argument of the first set_response on the handler
  exec_pc,                    \* position inside one call of execute_tool
  raw_args,                   \* its raw_args argument
  tool_func,                  \* what its tool_func argument does when called
  invocations,                \* number of times tool_func was called
  envelope,                   \* the dict execute_tool returned
  propagated,                 \* exception that escaped execute_tool
  create_pc,                  \* position of one call of create_new_tool
  python_code,                \* its python_code argument
  new_tool_name,              \* its tool_name argument
  schema_raises,              \* pydantic's create_model raises for the function
  create_result,              \* the string create_new_tool returned
  transaction_log,            \* records the turn appended to transaction_log.jsonl
  relevant_categories,        \* what classify_intent gave for the goal
  hist_pc,                    \* position of one call of get_historical_confidence
  log_file,                   \* transaction_log.jsonl as that call finds it
  hist_tool_name,             \* its tool_name argument
  HISTORY_RECORDS_TO_CONSIDER, \* config
  lines_left,                 \* lines of reversed(lines) not yet visited
  relevant_records,
  hist_result,                \* the float it returned
  hist_raised,                \* exception that escaped it
  component,                  \* the background component that was started
  lock_holder,                \* thread inside "with self._lock", if any
  worker_pc,                  \* position of the component's thread
  caller_pc,                  \* position of the thread calling its methods
  shared_lists,               \* its lists, each as the ids of its items
  published,                  \* what the caller was handed
  access,                     \* the most recent read or write of a list
  shared_handler,             \* agent.confirmation_handler, shared by episodes
  handler_objects,            \* the ConfirmationHandler objects created
  episodes,                   \* each episode's position in lines 316-324
  responded,                  \* requests the user has answered
  static_definitions,         \* TOOL_DEFINITIONS, name to definition
  dynamic_definitions,        \* DYNAMIC_TOOL_REGISTRY, name to definition
  session_definitions,        \* session_tools of the latest episode
  destructive_answer,         \* the latest is_destructive and its tool
  list_items,                 \* the notification lists, as sequences
  created,                    \* items ever put into each list
  fetches,                    \* rounds of GmailBot._check_emails so far
  dismissals,                 \* dismiss calls so far
  pending_suggestions,        \* AgentAnalyzer.pending_suggestions, as ids
  suggestion_history,         \* id to the time it was last suggested
  analyzer,                   \* position of the analyzer's thread
  now,                        \* what time.time() returns
  is_running,                 \* the component's is_running attribute
  worker_thread,              \* its thread attribute
  live_workers,               \* worker threads that have not finished
  thread_count,               \* Thread objects created so far
  control                     \* position of each thread calling start or stop

vars ==
  <<ai_response_text, final_answer, CONFIDENCE_THRESHOLD_GO, CONFIDENCE_THRESHOLD_ASK, pc, turn_count,
    consecutive_error_count, internal_scratchpad, executed_tools,
    response_kind, tool_calls, is_destructive, model_confidence, decision, user_confirmed, all_tool_outputs,
    confirmation_handler, main_confirmation_handler, prompted, llm_calls,
    rate_limits, memory, result, raised, tool_output, DYNAMIC_TOOL_REGISTRY,
    session_tools, ui_confirmation, timed_out, setters, first_response,
    exec_pc, raw_args, tool_func, invocations, envelope, propagated,
    create_pc, python_code, new_tool_name, schema_raises, create_result,
    transaction_log, relevant_categories, hist_pc, log_file, hist_tool_name,
    HISTORY_RECORDS_TO_CONSIDER, lines_left, relevant_records, hist_result,
    hist_raised, component, lock_holder, worker_pc, caller_pc, shared_lists,
    published, access, shared_handler, handler_objects, episodes, responded,
    static_definitions, dynamic_definitions, session_definitions,
    destructive_answer, list_items, created, fetches, dismissals,
    pending_suggestions, suggestion_history, analyzer, now, is_running,
    worker_thread, live_workers, thread_count, control>>

\* agent.py lines 191 and 238: the model's text and the answer cut from it.
answer_text == <<ai_response_text, final_answer>>

config == <<CONFIDENCE_THRESHOLD_GO, CONFIDENCE_THRESHOLD_ASK>>
turn_locals ==
  <<tool_calls, is_destructive, model_confidence, decision, user_confirmed,
    all_tool_outputs, prompted, tool_output, transaction_log>>
handlers == <<confirmation_handler, main_confirmation_handler>>
registries == <<DYNAMIC_TOOL_REGISTRY, session_tools>>
intent == <<relevant_categories>>
callers == <<timed_out, setters, first_response>>
executor ==
  <<exec_pc, raw_args, tool_func, invocations, envelope, propagated>>
creation ==
  <<create_pc, python_code, new_tool_name, schema_raises, create_result>>
\* Units that run outside think and execute_tool.
historian ==
  <<hist_pc, log_file, hist_tool_name, HISTORY_RECORDS_TO_CONSIDER,
    lines_left, relevant_records, hist_result, hist_raised>>
background ==
  <<component, lock_holder, worker_pc, caller_pc, shared_lists, published,
    access>>
confirmations == <<shared_handler, handler_objects, episodes, responded>>
shadowing ==
  <<static_definitions, dynamic_definitions, session_definitions,
    destructive_answer>>
contents == <<list_items, created, fetches, dismissals>>
suggestions == <<pending_suggestions, suggestion_history, analyzer, now>>
lifecycle ==
  <<is_running, worker_thread, live_workers, thread_count, control>>
units == <<confirmations, shadowing, contents, suggestions, lifecycle>>
components == <<creation, historian, background, units>>

\* ------------------------------------------------------------- scratchpad
Entry(kind) == [kind |-> kind, outputs |-> <<>>]

EmptyScratchpad == [odd |-> FALSE, last |-> Entry(None)]

\* A variant with a defect: the list is assigned instead of appended to.
ScratchAppend_Overwrites(pad, entry) == [odd |-> TRUE, last |-> entry]

ScratchAppend(pad, entry) == [odd |-> ~pad.odd, last |-> entry]

ResultsEntry(outputs) == [kind |-> "TOOL_RESULTS", outputs |-> outputs]

\* ------------------------------------------------------ ConfirmationHandler
\* obj = FALSE stands for the value None of the module global.
NoHandler == [obj |-> FALSE, event |-> FALSE, result |-> FALSE]

NewConfirmationHandler == [obj |-> TRUE, event |-> FALSE, result |-> FALSE]

set_response(h, confirmed) == [h EXCEPT !.result = confirmed, !.event = TRUE]

\* A Python bool as the model writes it next to None.
BoolStr(b) == IF b THEN "True" ELSE "False"

\* A caller that is not inside set_response.
Idle == "idle"

\* No tool call made yet in this turn.
NoOutput == [tool |-> None, status |-> None, via |-> None]

\* ------------------------------------------------- the model's response text
\* A response that does not carry "Final Answer:" is described by what the
\* parser of think can see of it:
\*   block       "none"     no ```json fenced block
\*               "invalid"  a block json.loads rejects
\*               "not_dict" a block holding a scalar, [] or a list whose
\*                          first element is not an object
\*               "dict"     an object (or a list whose first element is one)
\*   confidence  absent | a number | a value that is not a number
\*   tool_calls  absent | a truthy value that is not a list | a list whose
\*               items are objects (named by tool_name) or Junk
\*   answer      the thought contains "answer is" / "here is the"
ConfidenceFields ==
  {[shape |-> "absent", value |-> 0], [shape |-> "nonnumeric", value |-> 0]}
  \cup {[shape |-> "number", value |-> v] : v \in ConfidenceValues}

PlanItems == ToolNames \cup {Junk}

Plans == UNION {[1..n -> PlanItems] : n \in 0..MaxPlanLen}

ToolCallsFields ==
  {[shape |-> "absent", items |-> <<>>], [shape |-> "not_list", items |-> <<>>]}
  \cup {[shape |-> "list", items |-> p] : p \in Plans}

\* The thought is read only when there is no tool call (line 274), and no
\* field is read unless the block holds an object.
Responses ==
  {[block |-> b, confidence |-> [shape |-> "absent", value |-> 0],
    tool_calls |-> [shape |-> "absent", items |-> <<>>], answer |-> FALSE] :
      b \in {"none", "invalid", "not_dict"}}
  \cup {[block |-> "dict", confidence |-> c, tool_calls |-> t, answer |-> FALSE] :
          c \in ConfidenceFields, t \in ToolCallsFields}
  \cup {[block |-> "dict", confidence |-> c,
         tool_calls |-> [shape |-> "list", items |-> <<>>], answer |-> TRUE] :
          c \in ConfidenceFields}

\* Lines 253-270: "ok", or the class of the exception the parsing raises.
ParseOutcome(r) ==
  CASE r.block = "none" -> "ValueError"
    [] r.block = "invalid" -> "JSONDecodeError"
    [] r.block = "not_dict" -> "ValueError"
    [] OTHER -> IF r.confidence.shape = "nonnumeric" THEN "TypeError" ELSE "ok"

\* Line 268: parsed_response.get('confidence', 5) / 10.0, in hundredths.
ParsedConfidence(r) ==
  IF r.confidence.shape = "absent" THEN DefaultConfidence * 10
  ELSE r.confidence.value * 10

\* Line 272: "not tool_calls".
NoToolCalls(r) ==
  r.tool_calls.shape = "absent"
  \/ (r.tool_calls.shape = "list" /\ r.tool_calls.items = <<>>)

\* Line 308: any(tc.get("tool_name") in [...] for tc in tool_calls), scanned
\* left to right: "True", "False", or the exception met first.
RECURSIVE AnyDestructive(_)
AnyDestructive(calls) ==
  IF calls = <<>> THEN "False"
  ELSE IF Head(calls) = Junk THEN "AttributeError"
  ELSE IF Head(calls) \in DestructiveTools THEN "True"
  ELSE AnyDestructive(Tail(calls))

IsDestructiveEval(r) ==
  IF r.tool_calls.shape = "not_list" THEN "AttributeError"
  ELSE AnyDestructive(r.tool_calls.items)

\* Variants of the decision with a defect, used to show that the gating
\* properties below depend on lines 307-313.
Decide_IgnoreDestructive(confidence, destructive, go, ask) ==
  IF confidence >= go THEN "GO"
  ELSE IF confidence >= ask THEN "ASK"
  ELSE "STOP"

Decide_DestructiveAlwaysAsk(confidence, destructive, go, ask) ==
  IF destructive THEN "ASK"
  ELSE IF confidence >= go THEN "GO"
  ELSE IF confidence >= ask THEN "ASK"
  ELSE "STOP"

Decide_StrictGo(confidence, destructive, go, ask) ==
  IF destructive /\ confidence < ask THEN "STOP"
  ELSE IF destructive THEN "ASK"
  ELSE IF confidence > go THEN "GO"
  ELSE IF confidence >= ask THEN "ASK"
  ELSE "STOP"

\* Lines 307-313.
Decide(confidence, destructive, go, ask) ==
  IF destructive /\ confidence < ask THEN "STOP"
  ELSE IF destructive THEN "ASK"
  ELSE IF confidence >= go THEN "GO"
  ELSE IF confidence >= ask THEN "ASK"
  ELSE "STOP"

\* ------------------------------------------------------------ execute_tool
\* tool_executor.py.  args_model is a pydantic model with two required
\* fields; raw_args is a mapping that gives each field a value pydantic can
\* convert, a value it cannot convert or no value, or it is not a mapping.
ArgFields == {"query", "limit"}

FieldValues == {"absent", "convertible", "not_convertible"}

RawArgs ==
  {[mapping |-> FALSE, fields |-> [f \in ArgFields |-> "absent"]]}
  \cup {[mapping |-> TRUE, fields |-> fs] : fs \in [ArgFields -> FieldValues]}

\* Exception classes a callable may raise: subclasses of Exception (the
\* pydantic ValidationError among them) and classes that derive from
\* BaseException only.
ExceptionClasses ==
  {"ValueError", "RuntimeError", "ValidationError", "SystemExit",
   "KeyboardInterrupt"}

BaseExceptionOnly == {"SystemExit", "KeyboardInterrupt"}

\* tool_func either returns (a serialisable value or one json.dumps
\* rejects) or raises.
ToolBehaviours ==
  {[returns |-> TRUE, value |-> v] : v \in {"data", "unserialisable"}}
  \cup {[returns |-> FALSE, value |-> e] : e \in ExceptionClasses}

NoEnvelope == [status |-> None, error_code |-> None, data |-> None]

\* A variant with a defect: a value of the wrong type passes validation.
Validate_PresenceOnly(raw) ==
  IF ~raw.mapping THEN "TypeError"
  ELSE IF \E f \in ArgFields : raw.fields[f] = "absent"
    THEN "ValidationError"
  ELSE "ok"

\* Line 21, args_model(**raw_args): "ok" or the class of what it raises.
Validate(raw) ==
  IF ~raw.mapping THEN "TypeError"
  ELSE IF \E f \in ArgFields : raw.fields[f] # "convertible"
    THEN "ValidationError"
  ELSE "ok"

\* Lines 32-48: the two except clauses, for an exception raised inside the
\* try block; an exception neither clause matches leaves execute_tool.
Caught(exception) ==
  IF exception = "ValidationError"
    THEN /\ envelope' = [status |-> "error",
                         error_code |-> "validation_error", data |-> None]
         /\ exec_pc' = "returned"
         /\ propagated' = propagated
    ELSE IF exception \notin BaseExceptionOnly
      THEN /\ envelope' = [status |-> "error", error_code |-> exception,
                           data |-> None]
           /\ exec_pc' = "returned"
           /\ propagated' = propagated
      ELSE /\ envelope' = envelope
           /\ exec_pc' = "raised"
           /\ propagated' = exception

\* Episode variables, which execute_tool does not touch.
think_vars ==
  <<pc, turn_count, consecutive_error_count, internal_scratchpad,
    executed_tools, response_kind, turn_locals, handlers, llm_calls,
    rate_limits, memory, result, raised, registries, callers,
    ui_confirmation>>

\* Line 21.
ExecuteToolValidate ==
  /\ exec_pc = "called"
  /\ IF Validate(raw_args) = "ok"
       THEN /\ exec_pc' = "validated"
            /\ UNCHANGED <<envelope, propagated>>
       ELSE Caught(Validate(raw_args))
  /\ UNCHANGED <<config, answer_text, intent, components, think_vars, raw_args, tool_func, invocations>>

\* Lines 24-30.
ExecuteToolInvoke ==
  /\ exec_pc = "validated"
  /\ invocations' = invocations + 1
  /\ IF tool_func.returns
       THEN /\ envelope' = [status |-> "ok", error_code |-> None,
                            data |-> tool_func.value]
            /\ exec_pc' = "returned"
            /\ propagated' = propagated
       ELSE Caught(tool_func.value)
  /\ UNCHANGED <<config, answer_text, intent, components, think_vars, raw_args, tool_func>>

\* No call of execute_tool is followed step by step.
ExecutorIdle ==
  /\ exec_pc = "idle"
  /\ raw_args = [mapping |-> TRUE, fields |-> [f \in ArgFields |-> "convertible"]]
  /\ tool_func = [returns |-> TRUE, value |-> "data"]
  /\ invocations = 0
  /\ envelope = NoEnvelope
  /\ propagated = None

\* ------------------------------------------------------------------- Init
\* State of think at line 173, before the first test of the while loop, and
\* of the two module globals (agent.py line 318, main.py line 43).
EpisodeStart ==
  /\ pc = "loop"
  /\ turn_count = 0
  /\ consecutive_error_count = 0
  /\ internal_scratchpad = EmptyScratchpad
  /\ executed_tools = {}
  /\ response_kind = None
  /\ tool_calls = <<>>
  /\ is_destructive = FALSE
  /\ model_confidence = 0
  /\ decision = None
  /\ user_confirmed = FALSE
  /\ all_tool_outputs = <<>>
  /\ confirmation_handler = NoHandler
  /\ main_confirmation_handler = NoHandler
  /\ prompted = FALSE
  /\ llm_calls = 0
  /\ rate_limits = 0
  /\ memory = <<>>
  /\ result = None
  /\ raised = None
  /\ tool_output = NoOutput
  /\ transaction_log = <<>>
  /\ ai_response_text = <<>>
  /\ final_answer = <<>>
  /\ ui_confirmation = None
  /\ timed_out = FALSE
  /\ setters = [c \in Callers |-> Idle]
  /\ first_response = None

\* --------------------------------------------------------- intent pruning
\* agent.py lines 64-84.  A goal is the set of categories one of whose
\* keywords occurs in it; a goal with no keyword gets every category.
category_keywords ==
  {"File Ops", "System Info", "Web Search", "Communication",
   "Multimedia Analysis", "Weather", "Task-Specific", "Clipboard",
   "System Info & Execution"}

classify_intent(goal) == IF goal = {} THEN category_keywords ELSE goal

\* The goals of the model: those whose keywords are of these categories.
Goals == SUBSET {"File Ops", "Web Search", "System Info & Execution"}

\* tool_definitions.py lines 184-228 and dynamic_tool_manager.py line 51.
Category(name) ==
  CASE name = "search_and_browse" -> "Web Search"
    [] name \in {"execute_shell_command", "create_new_tool"}
         -> "System Info & Execution"
    [] OTHER -> "Dynamic"

\* Lines 115-118: the catalogue the prompt is built from (lines 119-128).
pruned_tool_defs ==
  {name \in session_tools :
     Category(name) \in relevant_categories \/ Category(name) = "Dynamic"}

\* ------------------------------------------------------ transaction log
\* commands/transaction_logger.py lines 9-33: the file is opened in mode 'a'
\* and one line is written; think never reads it.  transaction_log holds
\* the lines written since the iteration of think began.
TransactionRecord(name, success) == [tool_name |-> name, success |-> success]

log_tool_execution(log, name, success) ==
  Append(log, TransactionRecord(name, success))

\* ---------------------------------------------------- create_new_tool
\* commands/tools/python_script_tool.py lines 109-151 and
\* commands/dynamic_tool_manager.py lines 11-57.  A source text is what
\* ast.parse makes of it: whether it parses, and the kinds of the top-level
\* statements of tree.body.
CreatableNames == {DynamicToolName, "other_tool"}
FunctionDef(name) == [kind |-> "FunctionDef", name |-> name]
Statements ==
  {FunctionDef(n) : n \in CreatableNames}
    \cup {[kind |-> "Expr", name |-> None], [kind |-> "Raise", name |-> None]}
Bodies == UNION {[1..n -> Statements] : n \in 0..MaxBodyLen}
Sources ==
  {[parses |-> FALSE, body |-> <<>>]}
    \cup {[parses |-> TRUE, body |-> b] : b \in Bodies}
NoSource == [parses |-> FALSE, body |-> <<>>]

\* Line 136: exec runs every top-level statement in order; a raise statement
\* ends it with an exception.
ExecRaises(body) == \E i \in 1..Len(body) : body[i].kind = "Raise"

\* dynamic_tool_manager.py lines 25-57: the entry is assigned at line 48,
\* after create_model; any exception gives False.
RegisterDynamicTool_RegistersFirst(registry, name, raises) ==
  [ok |-> ~raises, registry |-> registry \cup {name}]

RegisterDynamicTool(registry, name, raises) ==
  IF raises
    THEN [ok |-> FALSE, registry |-> registry]
    ELSE [ok |-> TRUE, registry |-> registry \cup {name}]

\* Lines 124-151, as the message returned and the registry left behind.
CreateOutcome(registry, source, name, raises) ==
  IF ~source.parses
    THEN [message |-> "Syntax Error in Python code", registry |-> registry]
  ELSE IF source.body = <<>> \/ source.body[1].kind # "FunctionDef"
    THEN [message |-> "Error: Code must contain exactly one function definition.",
          registry |-> registry]
  ELSE IF source.body[1].name # name
    THEN [message |-> "Error: Function name must match tool_name",
          registry |-> registry]
  ELSE IF ExecRaises(source.body)
    THEN [message |-> "Unexpected error during tool creation",
          registry |-> registry]
  ELSE LET registered == RegisterDynamicTool(registry, name, raises)
       IN  [message |-> IF registered.ok
                          THEN "created successfully and available for use"
                          ELSE "Failed to register tool",
            registry |-> registered.registry]

CreateNewTool ==
  /\ create_pc = "called"
  /\ LET outcome == CreateOutcome(DYNAMIC_TOOL_REGISTRY, python_code,
                                  new_tool_name, schema_raises)
     IN  /\ create_result' = outcome.message
         /\ DYNAMIC_TOOL_REGISTRY' = outcome.registry
  /\ create_pc' = "returned"
  /\ UNCHANGED <<config, answer_text, intent, executor, pc, turn_count, consecutive_error_count,
                 internal_scratchpad, executed_tools, response_kind,
                 turn_locals, handlers, llm_calls, rate_limits, memory,
                 result, raised, session_tools, callers, ui_confirmation,
                 python_code, new_tool_name, schema_raises, historian,
                 background, units>>

CreationIdle ==
  /\ create_pc = Idle
  /\ python_code = NoSource
  /\ new_tool_name = None
  /\ schema_raises = FALSE
  /\ create_result = None

\* ------------------------------------------------ get_historical_confidence
\* commands/agent_historian.py lines 9-47.  A line of the log is what
\* json.loads makes of it: an object with a tool_name and a success entry, a
\* JSON value that is not an object, or text that is not JSON.
HistoryTools == {"search_and_browse", "execute_shell_command"}
LogLines ==
  [kind : {"object"}, tool_name : HistoryTools, success : BOOLEAN]
    \cup {[kind |-> "value", tool_name |-> None, success |-> FALSE],
          [kind |-> "corrupt", tool_name |-> None, success |-> FALSE]}
LogContents == UNION {[1..n -> LogLines] : n \in 0..MaxLogLen}
LogFiles ==
  {[exists |-> FALSE, readable |-> FALSE, lines |-> <<>>],
   [exists |-> TRUE, readable |-> FALSE, lines |-> <<>>]}
    \cup {[exists |-> TRUE, readable |-> TRUE, lines |-> c] : c \in LogContents}
NoLogFile == [exists |-> FALSE, readable |-> FALSE, lines |-> <<>>]

\* A float the function returns, kept exact: (num / den) ^ (twice_power / 2).
Score(num, den, twice_power) ==
  [num |-> num, den |-> den, twice_power |-> twice_power]
DefaultScore == Score(8, 10, 2)
UnreadableScore == Score(7, 10, 2)
NoScore == Score(0, 0, 0)

\* Lines 38-45.
RECURSIVE Successes(_)
Successes(records) ==
  IF records = <<>>
    THEN 0
    ELSE (IF Head(records).success THEN 1 ELSE 0) + Successes(Tail(records))

ConservativeScore(records) == Score(Successes(records), Len(records), 3)

\* Lines 14-22: the existence test, open and readlines.
HistorianOpen ==
  /\ hist_pc = "called"
  /\ IF ~log_file.exists
       THEN /\ hist_result' = DefaultScore
            /\ hist_pc' = "returned"
            /\ UNCHANGED lines_left
     ELSE IF ~log_file.readable
       THEN /\ hist_result' = UnreadableScore
            /\ hist_pc' = "returned"
            /\ UNCHANGED lines_left
       ELSE /\ lines_left' = Len(log_file.lines)
            /\ hist_pc' = "loop"
            /\ UNCHANGED hist_result
  /\ UNCHANGED <<config, answer_text, intent, executor, think_vars, creation, background, units,
                 log_file,
                 hist_tool_name, HISTORY_RECORDS_TO_CONSIDER,
                 relevant_records, hist_raised>>

\* Lines 23-31: one pass of the loop over reversed(lines).  Only
\* json.JSONDecodeError is caught inside the loop, and only IOError outside.
HistorianLine ==
  /\ hist_pc = "loop"
  /\ lines_left > 0
  /\ Len(relevant_records) < HISTORY_RECORDS_TO_CONSIDER
  /\ LET line == log_file.lines[lines_left] IN
       CASE line.kind = "corrupt" ->
              UNCHANGED <<relevant_records, hist_pc, hist_raised>>
         [] line.kind = "value" ->
              /\ hist_raised' = "AttributeError"
              /\ hist_pc' = "raised"
              /\ UNCHANGED relevant_records
         [] OTHER ->
              /\ relevant_records' =
                   IF line.tool_name = hist_tool_name
                     THEN Append(relevant_records, line)
                     ELSE relevant_records
              /\ UNCHANGED <<hist_pc, hist_raised>>
  /\ lines_left' = lines_left - 1
  /\ UNCHANGED <<config, answer_text, intent, executor, think_vars, creation, background, units,
                 log_file,
                 hist_tool_name, HISTORY_RECORDS_TO_CONSIDER, hist_result>>

\* Lines 24-25 and 35-47.
HistorianReturn ==
  /\ hist_pc = "loop"
  /\ lines_left = 0 \/ Len(relevant_records) >= HISTORY_RECORDS_TO_CONSIDER
  /\ hist_result' =
       IF relevant_records = <<>>
         THEN DefaultScore
         ELSE ConservativeScore(relevant_records)
  /\ hist_pc' = "returned"
  /\ UNCHANGED <<config, answer_text, intent, executor, think_vars, creation, background, units,
                 log_file,
                 hist_tool_name, HISTORY_RECORDS_TO_CONSIDER, lines_left,
                 relevant_records, hist_raised>>

HistorianIdle ==
  /\ hist_pc = Idle
  /\ log_file = NoLogFile
  /\ hist_tool_name = None
  /\ HISTORY_RECORDS_TO_CONSIDER = 1
  /\ lines_left = 0
  /\ relevant_records = <<>>
  /\ hist_result = NoScore
  /\ hist_raised = None

\* ---------------------------------------------------- background components
\* GmailBot (tools/gmail_bot.py), SystemHealthMonitor (system_health.py),
\* SystemMonitor (tools/system_monitor.py) and AgentAnalyzer
\* (agent_analyzer.py): each has its own _lock, its own worker thread and its
\* own lists, and shares nothing with the others, so a behaviour follows one
\* of them.  main.py line 77: without a component nothing runs.
Components ==
  {"GmailBot", "SystemHealthMonitor", "SystemMonitor", "AgentAnalyzer"}

ListsOf(c) ==
  CASE c = "GmailBot" -> {"important_emails", "other_emails"}
    [] c = "SystemHealthMonitor" -> {"health_alerts"}
    [] c = "SystemMonitor" -> {"actions"}
    [] c = "AgentAnalyzer" -> {"pending_suggestions"}
    [] OTHER -> {}

\* Ids of the items of the lists.
Ids == 1..MaxItems

NoAccess == [thread |-> None, kind |-> None, locked |-> FALSE]
Access(thread, kind) ==
  [thread |-> thread, kind |-> kind, locked |-> lock_holder = thread]

background_rest ==
  <<config, answer_text, intent, executor, think_vars, creation, historian,
    units, component>>

\* gmail_bot.py line 36, system_health.py lines 59-60, system_monitor.py
\* lines 92-114, agent_analyzer.py line 63: the worker enters its network,
\* LLM, tool or file call, outside any with block.
WorkerCall_HoldingLock ==
  /\ component \in Components
  /\ worker_pc = "sleeping"
  /\ lock_holder = None
  /\ lock_holder' = "worker"
  /\ worker_pc' = "blocking"
  /\ UNCHANGED <<background_rest, caller_pc, shared_lists, published,
                 access>>

WorkerCall ==
  /\ component \in Components
  /\ worker_pc = "sleeping"
  /\ worker_pc' = "blocking"
  /\ UNCHANGED <<background_rest, lock_holder, caller_pc, shared_lists,
                 published, access>>

\* The call returns: with something to store, or with nothing (no new
\* email, "OK", no tool call, no frequent sequence, an exception).
WorkerReturn ==
  /\ worker_pc = "blocking"
  /\ worker_pc' \in {"ready", "sleeping"}
  /\ UNCHANGED <<background_rest, lock_holder, caller_pc, shared_lists,
                 published, access>>

\* "with self._lock:" of gmail_bot.py line 38, system_health.py line 73,
\* system_monitor.py line 123, agent_analyzer.py line 88.
WorkerAcquire ==
  /\ worker_pc = "ready"
  /\ lock_holder = None
  /\ lock_holder' = "worker"
  /\ worker_pc' = "locked"
  /\ UNCHANGED <<background_rest, caller_pc, shared_lists, published,
                 access>>

\* gmail_bot.py lines 39-59, system_health.py lines 74-75, system_monitor.py
\* lines 124-125, agent_analyzer.py lines 90-92: the item goes into one of
\* the lists (the trimming to 20 or 50 items is beyond MaxItems).
WorkerStore ==
  /\ worker_pc = "locked"
  /\ \E l \in ListsOf(component), id \in Ids :
       shared_lists' = [shared_lists EXCEPT ![l] = @ \cup {id}]
  /\ access' = Access("worker", "write")
  /\ worker_pc' = "stored"
  /\ UNCHANGED <<background_rest, lock_holder, caller_pc, published>>

\* The end of the with block.
WorkerRelease ==
  /\ worker_pc = "stored"
  /\ lock_holder' = None
  /\ worker_pc' = "sleeping"
  /\ UNCHANGED <<background_rest, caller_pc, shared_lists, published,
                 access>>

\* get_important_emails, get_other_emails, get_alerts, get_actions,
\* get_suggestions: "with self._lock: return self.<list>.copy()".
GetAcquire ==
  /\ component \in Components
  /\ caller_pc = Idle
  /\ lock_holder = None
  /\ lock_holder' = "caller"
  /\ caller_pc' = "get_locked"
  /\ UNCHANGED <<background_rest, worker_pc, shared_lists, published,
                 access>>

GetCopy ==
  /\ caller_pc = "get_locked"
  /\ access' = Access("caller", "read")
  /\ published' = "copy"
  /\ caller_pc' = "leaving"
  /\ UNCHANGED <<background_rest, lock_holder, worker_pc, shared_lists>>

\* dismiss_email, dismiss_alert, dismiss_action, dismiss_suggestion: the
\* lists are rebuilt without the id, inside the with block.
DismissAcquire ==
  /\ component \in Components
  /\ caller_pc \in {Idle, "approving"}
  /\ lock_holder = None
  /\ lock_holder' = "caller"
  /\ caller_pc' = "dismiss_locked"
  /\ UNCHANGED <<background_rest, worker_pc, shared_lists, published,
                 access>>

DismissRebuild ==
  /\ caller_pc = "dismiss_locked"
  /\ \E id \in Ids :
       shared_lists' = [l \in DOMAIN shared_lists |-> shared_lists[l] \ {id}]
  /\ access' = Access("caller", "write")
  /\ caller_pc' = "leaving"
  /\ UNCHANGED <<background_rest, lock_holder, worker_pc, published>>

CallerRelease ==
  /\ caller_pc = "leaving"
  /\ lock_holder' = None
  /\ caller_pc' = Idle
  /\ UNCHANGED <<background_rest, worker_pc, shared_lists, published,
                 access>>

\* main.py lines 181-185: approve_improvement_suggestion iterates
\* agent_analyzer.pending_suggestions itself, outside any with block; when
\* it finds the suggestion it goes on to dismiss_suggestion (line 193).
ApproveRead ==
  /\ component = "AgentAnalyzer"
  /\ caller_pc = Idle
  /\ access' = Access("caller", "read")
  /\ published' = "internal"
  /\ caller_pc' =
       IF shared_lists["pending_suggestions"] = {} THEN Idle ELSE "approving"
  /\ UNCHANGED <<background_rest, lock_holder, worker_pc, shared_lists>>

BackgroundIdle ==
  /\ component = None
  /\ lock_holder = None
  /\ worker_pc = "sleeping"
  /\ caller_pc = Idle
  /\ shared_lists = <<>>
  /\ published = None
  /\ access = NoAccess

\* --------------------------------------- episodes sharing the handler slot
\* agent.py line 318 declares confirmation_handler a module global: episodes
\* that run think on different threads create, read and clear the same slot.
\* A handler object is named by the number of the request it was made for;
\* 0 stands for None.
Episodes == {1, 2}

NoRequest == 0

\* Lines 36-38 with the request whose answer resolved the handler, if any.
FreshHandler == [event |-> FALSE, result |-> FALSE, answered_by |-> NoRequest]

\* An episode outside lines 316-324.
EpisodeThinking ==
  [pc |-> "think", own |-> NoRequest, waiting_on |-> NoRequest,
   user_confirmed |-> FALSE]

units_rest ==
  <<config, answer_text, intent, executor, think_vars, creation, historian,
    background>>

confirmations_rest ==
  <<units_rest, shadowing, contents, suggestions, lifecycle>>

\* Lines 319-321: a fresh handler is stored in the global and the plan is
\* shown to the user.
CreateHandler(e) ==
  /\ episodes[e].pc = "think"
  /\ Len(handler_objects) < MaxRequests
  /\ handler_objects' = Append(handler_objects, FreshHandler)
  /\ shared_handler' = Len(handler_objects) + 1
  /\ episodes' = [episodes EXCEPT ![e] =
                    [EpisodeThinking EXCEPT !.pc = "created",
                                            !.own = Len(handler_objects) + 1]]
  /\ UNCHANGED <<confirmations_rest, responded>>

\* Line 322, the evaluation of confirmation_handler.wait_for_response: the
\* global is read again; None has no such attribute.
ReadHandler(e) ==
  /\ episodes[e].pc = "created"
  /\ episodes' = [episodes EXCEPT ![e] =
                    IF shared_handler = NoRequest
                      THEN [@ EXCEPT !.pc = "raised"]
                      ELSE [@ EXCEPT !.pc = "waiting",
                                     !.waiting_on = shared_handler]]
  /\ UNCHANGED <<confirmations_rest, shared_handler, handler_objects, responded>>

\* Lines 42-43: event.wait returns, because the event is set or because the
\* timeout has elapsed, and the result of the handler waited on is returned.
HandlerWake(e) ==
  /\ episodes[e].pc = "waiting"
  /\ episodes' = [episodes EXCEPT ![e] =
                    [@ EXCEPT !.pc = "woken",
                              !.user_confirmed =
                                 handler_objects[episodes[e].waiting_on].result]]
  /\ UNCHANGED <<confirmations_rest, shared_handler, handler_objects, responded>>

\* Line 323: confirmation_handler = None, whatever the global holds.
ClearHandler(e) ==
  /\ episodes[e].pc = "woken"
  /\ shared_handler' = NoRequest
  /\ episodes' = [episodes EXCEPT ![e] = EpisodeThinking]
  /\ UNCHANGED <<confirmations_rest, handler_objects, responded>>

\* Lines 45-48, called for the user's answer to request r by a caller that
\* resolves the global of commands/agent.py: the handler found in the slot
\* at that moment is set.
SlotSetResponse(r) ==
  /\ r \in (1..Len(handler_objects)) \ responded
  /\ responded' = responded \cup {r}
  /\ \E confirmed \in BOOLEAN :
       handler_objects' =
         IF shared_handler = NoRequest THEN handler_objects
         ELSE [handler_objects EXCEPT ![shared_handler] =
                 [event |-> TRUE, result |-> confirmed, answered_by |-> r]]
  /\ UNCHANGED <<confirmations_rest, shared_handler, episodes>>

\* main.py lines 81-85, set_user_confirmation for the user's answer to
\* request r: the global of main.py (line 43) is None, nothing is set.
UiSetUserConfirmation(r) ==
  /\ r \in (1..Len(handler_objects)) \ responded
  /\ responded' = responded \cup {r}
  /\ UNCHANGED <<confirmations_rest, shared_handler, handler_objects, episodes>>

\* No episode has asked yet.
ConfirmationsIdle ==
  /\ shared_handler = NoRequest
  /\ handler_objects = <<>>
  /\ episodes = [e \in Episodes |-> EpisodeThinking]
  /\ responded = {}

\* ------------------------------------------- the registries as dictionaries
\* tool_definitions.py line 32 and dynamic_tool_manager.py line 9: both
\* registries map a tool name to a definition.  A definition is kept as its
\* category and the registry it was written for.
StaticDefinition(name) == [category |-> Category(name), origin |-> "static"]

\* dynamic_tool_manager.py lines 48-52.
DynamicDefinition == [category |-> "Dynamic", origin |-> "dynamic"]

EmptyDict == [name \in {} |-> DynamicDefinition]

\* Names create_new_tool may be called with: python_script_tool.py lines
\* 109-151 compare tool_name with the function's name only, never with the
\* names of TOOL_DEFINITIONS.
RegistrableNames == TOOL_DEFINITIONS \cup {DynamicToolName}

\* d[name] = definition.
DictPut(d, name, definition) ==
  [n \in DOMAIN d \cup {name} |-> IF n = name THEN definition ELSE d[n]]

\* A merge in which the first dictionary wins.
DictMerge_FirstWins(first, second) ==
  [n \in DOMAIN first \cup DOMAIN second |->
     IF n \in DOMAIN first THEN first[n] ELSE second[n]]

\* {**first, **second}: the entries of second replace those of first.
DictMerge(first, second) ==
  [n \in DOMAIN first \cup DOMAIN second |->
     IF n \in DOMAIN second THEN second[n] ELSE first[n]]

\* No destructive check made yet.
NoAnswer == [name |-> None, is_destructive |-> FALSE, origin |-> None]

shadowing_rest ==
  <<units_rest, confirmations, contents, suggestions, lifecycle>>

\* dynamic_tool_manager.py lines 48-52, reached from create_new_tool (C21
\* covers the failures): DYNAMIC_TOOL_REGISTRY[tool_name] = {...}.
RegisterDefinition(name) ==
  /\ dynamic_definitions' =
       DictPut(dynamic_definitions, name, DynamicDefinition)
  /\ UNCHANGED <<shadowing_rest, static_definitions, session_definitions,
                 destructive_answer>>

\* agent.py lines 113-114, at the start of an episode.
MergeSessionTools ==
  /\ session_definitions' = DictMerge(static_definitions, dynamic_definitions)
  /\ UNCHANGED <<shadowing_rest, static_definitions, dynamic_definitions,
                 destructive_answer>>

\* agent.py line 308 for a plan that calls one tool of the session.
CheckDestructive(name) ==
  /\ name \in DOMAIN session_definitions
  /\ destructive_answer' =
       [name |-> name,
        is_destructive |-> AnyDestructive(<<name>>) = "True",
        origin |-> session_definitions[name].origin]
  /\ UNCHANGED <<shadowing_rest, static_definitions, dynamic_definitions,
                 session_definitions>>

\* A fresh process in which no episode has built its session tool set.
ShadowingIdle ==
  /\ static_definitions = [n \in TOOL_DEFINITIONS |-> StaticDefinition(n)]
  /\ dynamic_definitions = EmptyDict
  /\ session_definitions = EmptyDict
  /\ destructive_answer = NoAnswer

\* ------------------------------------------- the contents of the lists
\* Every write of a notification list is inside "with self._lock", so the
\* with blocks of one component follow one another; here each is one step and
\* a list is the sequence of its items.  An item is named by its rank among
\* the items ever put into its list (uuid4 and Gmail ids never repeat).
AlertLimit == 20
ActionLimit == 20
ImportantLimit == 20
OtherLimit == 50
max_results == 25

ListedComponents == {"GmailBot", "SystemHealthMonitor", "SystemMonitor"}

Min(a, b) == IF a <= b THEN a ELSE b

\* list[:limit]
FirstN(list, limit) == SubSeq(list, 1, Min(Len(list), limit))

\* list[-limit:] that cuts at the wrong end.
LastN_KeepsOldest(list, limit) == SubSeq(list, 1, Min(Len(list), limit))

\* list[-limit:]
LastN(list, limit) ==
  SubSeq(list, Len(list) - Min(Len(list), limit) + 1, Len(list))

\* The ids from + 1 .. from + count, the newest first: what count calls of
\* insert(0, email) leave at the head of a list.
RECURSIVE NewestFirst(_, _)
NewestFirst(from, count) ==
  IF count = 0 THEN <<>>
  ELSE <<from + count>> \o NewestFirst(from, count - 1)

\* [item for item in list if item["id"] != id]
RECURSIVE Without(_, _)
Without(list, id) ==
  IF list = <<>> THEN <<>>
  ELSE IF Head(list) = id THEN Without(Tail(list), id)
  ELSE <<Head(list)>> \o Without(Tail(list), id)

\* What one fetch may hold: how many unprocessed emails of important senders
\* and of other senders, at most max_results together (gmail_tools.py line
\* 56).
Batches == {<<0, 0>>, <<1, 0>>, <<0, 1>>, <<max_results, 0>>,
            <<0, max_results>>, <<5, 20>>}

contents_rest ==
  <<units_rest, confirmations, shadowing, suggestions, lifecycle>>

\* system_health.py lines 73-75 and system_monitor.py lines 123-125.
AppendTrimmed ==
  /\ component \in {"SystemHealthMonitor", "SystemMonitor"}
  /\ \E l \in DOMAIN list_items :
       LET limit == IF l = "health_alerts" THEN AlertLimit ELSE ActionLimit
       IN  /\ created[l] < limit + MaxExtra
           /\ created' = [created EXCEPT ![l] = @ + 1]
           /\ list_items' =
                [list_items EXCEPT ![l] =
                   LastN(Append(@, created[l] + 1), limit)]
  /\ UNCHANGED <<contents_rest, fetches, dismissals>>

\* gmail_bot.py lines 36-59: one round of _check_emails.
CheckEmails ==
  /\ component = "GmailBot"
  /\ fetches < MaxFetches
  /\ fetches' = fetches + 1
  /\ \E batch \in Batches :
       /\ created' =
            [created EXCEPT !["important_emails"] = @ + batch[1],
                            !["other_emails"] = @ + batch[2]]
       /\ list_items' =
            [list_items EXCEPT
               !["important_emails"] =
                  FirstN(NewestFirst(created["important_emails"], batch[1])
                           \o @, ImportantLimit),
               !["other_emails"] =
                  FirstN(NewestFirst(created["other_emails"], batch[2])
                           \o @, OtherLimit)]
  /\ UNCHANGED <<contents_rest, dismissals>>

\* dismiss_alert, dismiss_action, dismiss_email: the user dismisses the first
\* or the last entry of a list; the list that holds the id is rebuilt without
\* it (an email is in one list only).
DismissItem ==
  /\ component \in ListedComponents
  /\ dismissals < MaxDismissed
  /\ dismissals' = dismissals + 1
  /\ \E l \in DOMAIN list_items :
       /\ list_items[l] # <<>>
       /\ \E id \in {Head(list_items[l]), list_items[l][Len(list_items[l])]} :
            list_items' = [list_items EXCEPT ![l] = Without(@, id)]
  /\ UNCHANGED <<contents_rest, created, fetches>>

\* No component whose lists are followed.
ContentsIdle ==
  /\ list_items = <<>>
  /\ created = <<>>
  /\ fetches = 0
  /\ dismissals = 0

\* ------------------------------------------- the suggestions of the analyzer
\* agent_analyzer.py.  main.py line 63 starts the analyzer once and nothing
\* under src/ stops it, so _analyze_patterns runs on one thread.  Times are
\* seconds; the clock is read by time.time().
SUGGESTION_COOLDOWN == 3600
AnalysisInterval == 900

\* Ids of the suggestions the log may give rise to (line 72).
SuggestionIds == {"new_tool_1", "new_tool_2"}

\* The worker between two iterations of the loop of line 70.
AnalyzerWaiting == [pc |-> "waiting", suggestion_id |-> None]

suggestions_rest ==
  <<units_rest, confirmations, shadowing, contents, lifecycle>>

\* Lines 70-77 without the cooldown test.
AnalyzeCheck_NoCooldown(suggestion_id) ==
  /\ analyzer.pc = "waiting"
  /\ analyzer' = [pc |-> "built", suggestion_id |-> suggestion_id]
  /\ UNCHANGED <<suggestions_rest, pending_suggestions, suggestion_history,
                 now>>

\* Lines 70-87: a sequence seen at least 3 times; its id is skipped while the
\* cooldown runs, otherwise the suggestion is built.
AnalyzeCheck(suggestion_id) ==
  /\ analyzer.pc = "waiting"
  /\ analyzer' =
       IF now - suggestion_history[suggestion_id] < SUGGESTION_COOLDOWN
         THEN AnalyzerWaiting
         ELSE [pc |-> "built", suggestion_id |-> suggestion_id]
  /\ UNCHANGED <<suggestions_rest, pending_suggestions, suggestion_history,
                 now>>

\* Lines 88-93, the with block.
AnalyzeStore ==
  /\ analyzer.pc = "built"
  /\ LET id == analyzer.suggestion_id
         is_pending ==
           \E i \in 1..Len(pending_suggestions) : pending_suggestions[i] = id
     IN  IF is_pending
           THEN UNCHANGED <<pending_suggestions, suggestion_history>>
           ELSE /\ pending_suggestions' = Append(pending_suggestions, id)
                /\ suggestion_history' =
                     [suggestion_history EXCEPT ![id] = now]
  /\ analyzer' = AnalyzerWaiting
  /\ UNCHANGED <<suggestions_rest, now>>

\* Lines 129-131.
DismissSuggestion(suggestion_id) ==
  /\ pending_suggestions' = Without(pending_suggestions, suggestion_id)
  /\ pending_suggestions' # pending_suggestions
  /\ UNCHANGED <<suggestions_rest, suggestion_history, analyzer, now>>

\* Time passes: the sleep of lines 107-111, or as long while the worker or
\* the user is busy elsewhere.
ClockAdvance ==
  /\ now < SUGGESTION_COOLDOWN + MaxIntervals * AnalysisInterval
  /\ now' = now + AnalysisInterval
  /\ UNCHANGED <<suggestions_rest, pending_suggestions, suggestion_history,
                 analyzer>>

\* Lines 27-28 of __init__; the clock of a running machine is far beyond one
\* cooldown after the epoch, which is all line 76 asks of it (history.get
\* answers 0 for an id never suggested).
SuggestionsIdle ==
  /\ pending_suggestions = <<>>
  /\ suggestion_history = [id \in SuggestionIds |-> 0]
  /\ analyzer = AnalyzerWaiting
  /\ now = SUGGESTION_COOLDOWN

\* ------------------------------------------- starting and stopping a worker
\* agent_analyzer.py lines 99-123, system_health.py lines 55-97, gmail_bot.py
\* lines 64-90: is_running and thread are plain attributes, read and written
\* without a lock by whichever thread calls start or stop.  A worker is named
\* by the number of the Thread object; 0 stands for None.
ControlThreads == {"t1", "t2"}

NoThread == 0

ControlIdle == [pc |-> Idle, target |-> NoThread]

lifecycle_rest ==
  <<units_rest, confirmations, shadowing, contents, suggestions>>

\* "if not self.is_running:" of start and start_watching.
StartCheck(t) ==
  /\ component \in Components \ {"SystemMonitor"}
  /\ control[t] = ControlIdle
  /\ control' = [control EXCEPT ![t].pc =
                   IF is_running THEN Idle ELSE "start_set"]
  /\ UNCHANGED <<lifecycle_rest, is_running, worker_thread, live_workers,
                 thread_count>>

\* self.is_running = True
StartSet(t) ==
  /\ control[t].pc = "start_set"
  /\ is_running' = TRUE
  /\ control' = [control EXCEPT ![t].pc = "start_spawn"]
  /\ UNCHANGED <<lifecycle_rest, worker_thread, live_workers, thread_count>>

\* self.thread = threading.Thread(...); self.thread.start()
StartSpawn(t) ==
  /\ control[t].pc = "start_spawn"
  /\ thread_count < MaxThreads
  /\ thread_count' = thread_count + 1
  /\ worker_thread' = thread_count + 1
  /\ live_workers' = live_workers \cup {thread_count + 1}
  /\ control' = [control EXCEPT ![t] = ControlIdle]
  /\ UNCHANGED <<lifecycle_rest, is_running>>

\* "if self.is_running:" of GmailBot.stop and stop_watching; AgentAnalyzer.stop
\* has no such test.
StopCheck(t) ==
  /\ component \in Components \ {"SystemMonitor"}
  /\ control[t] = ControlIdle
  /\ control' = [control EXCEPT ![t].pc =
                   IF is_running \/ component = "AgentAnalyzer"
                     THEN "stop_clear" ELSE Idle]
  /\ UNCHANGED <<lifecycle_rest, is_running, worker_thread, live_workers,
                 thread_count>>

\* self.is_running = False
StopClear(t) ==
  /\ control[t].pc = "stop_clear"
  /\ is_running' = FALSE
  /\ control' = [control EXCEPT ![t].pc = "stop_join"]
  /\ UNCHANGED <<lifecycle_rest, worker_thread, live_workers, thread_count>>

\* "if self.thread and self.thread.is_alive(): self.thread.join()": the
\* attribute is read now; without a live thread stop returns.
StopJoin(t) ==
  /\ control[t].pc = "stop_join"
  /\ control' = [control EXCEPT ![t] =
                   IF worker_thread \in live_workers
                     THEN [pc |-> "joining", target |-> worker_thread]
                     ELSE ControlIdle]
  /\ UNCHANGED <<lifecycle_rest, is_running, worker_thread, live_workers,
                 thread_count>>

\* join returns when the thread joined has finished.
JoinReturn(t) ==
  /\ control[t].pc = "joining"
  /\ control[t].target \notin live_workers
  /\ control' = [control EXCEPT ![t] = ControlIdle]
  /\ UNCHANGED <<lifecycle_rest, is_running, worker_thread, live_workers,
                 thread_count>>

\* A worker reads is_running (agent_analyzer.py lines 102 and 109,
\* system_health.py lines 56 and 81, gmail_bot.py lines 70 and 72) and
\* finishes when it finds it False.
WorkerExit(w) ==
  /\ w \in live_workers
  /\ ~is_running
  /\ live_workers' = live_workers \ {w}
  /\ UNCHANGED <<lifecycle_rest, is_running, worker_thread, control, thread_count>>

\* __init__: not running, no thread.
LifecycleIdle ==
  /\ is_running = FALSE
  /\ worker_thread = NoThread
  /\ live_workers = {}
  /\ thread_count = 0
  /\ control = [t \in ControlThreads |-> ControlIdle]

UnitsIdle ==
  /\ ConfirmationsIdle
  /\ ShadowingIdle
  /\ ContentsIdle
  /\ SuggestionsIdle
  /\ LifecycleIdle

ComponentsIdle ==
  CreationIdle /\ HistorianIdle /\ BackgroundIdle /\ UnitsIdle

\* dynamic_tool_manager.py line 9 and agent.py lines 113-114: the registry
\* of a fresh process is empty, and think merges it into a new dict.
FreshRegistry ==
  /\ DYNAMIC_TOOL_REGISTRY = {}
  /\ session_tools = TOOL_DEFINITIONS \cup DYNAMIC_TOOL_REGISTRY

Init ==
  /\ FreshRegistry
  /\ ExecutorIdle
  /\ ComponentsIdle
  /\ relevant_categories = classify_intent({})
  /\ CONFIDENCE_THRESHOLD_GO \in ThresholdValues
  /\ CONFIDENCE_THRESHOLD_ASK \in ThresholdValues
  /\ CONFIDENCE_THRESHOLD_GO # CONFIDENCE_THRESHOLD_ASK
  /\ EpisodeStart

\* ----------------------------------------------------------------- helpers
\* Line 174: the loop is entered for one more iteration.
TurnGuard == pc = "loop" /\ turn_count < max_turns_failsafe

\* The locals of an iteration are assigned before they are read: an iteration
\* starts with them cleared, and the plan and its outputs are cleared when
\* the iteration is over.
FreshLocals ==
  /\ tool_calls' = <<>>
  /\ is_destructive' = FALSE
  /\ model_confidence' = 0
  /\ decision' = None
  /\ user_confirmed' = FALSE
  /\ all_tool_outputs' = <<>>
  /\ prompted' = FALSE
  /\ tool_output' = NoOutput
  /\ transaction_log' = <<>>

\* "return <message>" from think.
Return(message) == pc' = "done" /\ result' = message /\ raised' = raised

\* An exception leaves think.
Raise(exception) == pc' = "raised" /\ raised' = exception /\ result' = result

\* "continue": back to the test of the while loop.
Continue == pc' = "loop" /\ result' = result /\ raised' = raised

\* consecutive_error_count += 1; abort with message at the budget, else continue.
CountError(message) ==
  /\ consecutive_error_count' = consecutive_error_count + 1
  /\ IF consecutive_error_count + 1 >= max_consecutive_errors
       THEN Return(message)
       ELSE Continue

\* ------------------------------------------------- iterations of the loop
\* Lines 174, 376-377: the turn budget is used up.
BudgetExhausted ==
  /\ pc = "loop"
  /\ turn_count >= max_turns_failsafe
  /\ Return(MSG_BUDGET)
  /\ UNCHANGED <<config, answer_text, intent, components, executor, registries, callers, ui_confirmation, turn_count, consecutive_error_count,
                 internal_scratchpad, executed_tools, response_kind,
                 turn_locals, handlers, llm_calls, rate_limits, memory>>

\* RateLimited without line 219: the failed call costs a turn.
RateLimited_ConsumesTurn ==
  /\ TurnGuard
  /\ rate_limits < MaxRateLimits
  /\ llm_calls' = llm_calls + 1
  /\ rate_limits' = rate_limits + 1
  /\ response_kind' = "rate_limit"
  /\ turn_count' = turn_count + 1
  /\ Continue
  /\ UNCHANGED <<config, answer_text, intent, components, executor, registries, callers, ui_confirmation, consecutive_error_count, internal_scratchpad,
                 executed_tools, turn_locals, handlers, memory>>

\* Lines 175-188, 208-220: generate_content raises ResourceExhausted.
RateLimited ==
  /\ TurnGuard
  /\ rate_limits < MaxRateLimits
  /\ llm_calls' = llm_calls + 1
  /\ rate_limits' = rate_limits + 1
  /\ response_kind' = "rate_limit"
  /\ turn_count' = (turn_count + 1) - 1
  /\ Continue
  /\ UNCHANGED <<config, answer_text, intent, components, executor, registries, callers, ui_confirmation, consecutive_error_count, internal_scratchpad,
                 executed_tools, turn_locals, handlers, memory>>

\* InternalServerError without lines 226-229: the error is fed back but never
\* counted.
InternalServerError_Uncounted ==
  /\ TurnGuard
  /\ turn_count' = turn_count + 1
  /\ llm_calls' = llm_calls + 1
  /\ response_kind' = "server_error"
  /\ internal_scratchpad' =
       ScratchAppend(internal_scratchpad, Entry("SYSTEM_ERROR"))
  /\ consecutive_error_count' = consecutive_error_count
  /\ Continue
  /\ FreshLocals
  /\ UNCHANGED <<config, answer_text, intent, components, executor, registries, callers, ui_confirmation, executed_tools, handlers, rate_limits, memory>>

\* Lines 175-188, 222-230: generate_content raises InternalServerError.
InternalServerError ==
  /\ TurnGuard
  /\ turn_count' = turn_count + 1
  /\ llm_calls' = llm_calls + 1
  /\ response_kind' = "server_error"
  /\ internal_scratchpad' =
       ScratchAppend(internal_scratchpad, Entry("SYSTEM_ERROR"))
  /\ CountError(MSG_API)
  /\ FreshLocals
  /\ UNCHANGED <<config, answer_text, intent, components, executor, registries, callers, ui_confirmation, executed_tools, handlers, rate_limits, memory>>

\* OtherException handled like a server error: fed back and retried.
OtherException_Retried ==
  /\ TurnGuard
  /\ turn_count' = turn_count + 1
  /\ llm_calls' = llm_calls + 1
  /\ response_kind' = "exception"
  /\ internal_scratchpad' =
       ScratchAppend(internal_scratchpad, Entry("SYSTEM_ERROR"))
  /\ CountError(MSG_CRITICAL)
  /\ FreshLocals
  /\ UNCHANGED <<config, answer_text, intent, components, executor, registries, callers, ui_confirmation, executed_tools, handlers, rate_limits, memory>>

\* Lines 175-188, 232-235: generate_content (or reading the response) raises
\* anything else.
OtherException ==
  /\ TurnGuard
  /\ turn_count' = turn_count + 1
  /\ llm_calls' = llm_calls + 1
  /\ response_kind' = "exception"
  /\ Return(MSG_CRITICAL)
  /\ FreshLocals
  /\ UNCHANGED <<config, answer_text, intent, components, executor, registries, callers, ui_confirmation, consecutive_error_count, internal_scratchpad,
                 executed_tools, handlers, rate_limits, memory>>

\* EmptyResponse without lines 204-206: feedback, but the error is not counted.
EmptyResponse_Uncounted ==
  /\ TurnGuard
  /\ turn_count' = turn_count + 1
  /\ llm_calls' = llm_calls + 1
  /\ response_kind' = "empty"
  /\ internal_scratchpad' = ScratchAppend(internal_scratchpad, Entry("EMPTY"))
  /\ consecutive_error_count' = consecutive_error_count
  /\ Continue
  /\ FreshLocals
  /\ UNCHANGED <<config, answer_text, intent, components, executor, registries, callers, ui_confirmation, executed_tools, handlers, rate_limits, memory>>

\* Lines 175-206: the response has no parts.
EmptyResponse ==
  /\ TurnGuard
  /\ turn_count' = turn_count + 1
  /\ llm_calls' = llm_calls + 1
  /\ response_kind' = "empty"
  /\ internal_scratchpad' = ScratchAppend(internal_scratchpad, Entry("EMPTY"))
  /\ CountError(MSG_STUCK)
  /\ FreshLocals
  /\ UNCHANGED <<config, answer_text, intent, components, executor, registries, callers, ui_confirmation, executed_tools, handlers, rate_limits, memory>>

\* Lines 241-248: the reflection.  summary is what generate_text gives:
\* "ok" a usable sentence, "error_text" an empty or "Error..." text,
\* "raises" an exception (also one raised by add_memory), which is swallowed.
SummaryOutcomes == {"ok", "error_text", "raises"}

\* Reflect without the test of line 238: a record for every final answer.
Reflect_WithoutTools(mem, tools, summary) ==
  IF summary = "ok"
    THEN Append(mem, [tools_used |-> tools])
    ELSE mem

Reflect(mem, tools, summary) ==
  IF tools # {} /\ summary = "ok"
    THEN Append(mem, [tools_used |-> tools])
    ELSE mem

\* The pieces a response text is made of: the marker of line 237, a fenced
\* tool-call block (the pattern of line 254), a word and white space.
Marker == "Final Answer:"
Block == "<json block>"
Word == "word"
Space == " "
Tokens == {Marker, Block, Word, Space}

\* Response texts of at most MaxTextLen pieces.
Texts == UNION {[1..n -> Tokens] : n \in 0..MaxTextLen}

\* Line 237: "Final Answer:" in ai_response_text.
ContainsMarker(text) == \E i \in 1..Len(text) : text[i] = Marker

\* str.strip() of line 238: white space is dropped at both ends only.
RECURSIVE strip(_)
strip(text) ==
  IF text = <<>> THEN <<>>
  ELSE IF Head(text) = Space THEN strip(Tail(text))
  ELSE IF text[Len(text)] = Space THEN strip(SubSeq(text, 1, Len(text) - 1))
  ELSE text

\* Line 238 with the cut at the last marker.
final_answer_LastMarker(text) ==
  LET i == CHOOSE k \in 1..Len(text) :
             /\ text[k] = Marker
             /\ \A j \in (k + 1)..Len(text) : text[j] # Marker
  IN strip(SubSeq(text, i + 1, Len(text)))

\* Line 238: ai_response_text.split("Final Answer:", 1)[1].strip().
final_answer_of(text) ==
  LET i == CHOOSE k \in 1..Len(text) :
             /\ text[k] = Marker
             /\ \A j \in 1..(k - 1) : text[j] # Marker
  IN strip(SubSeq(text, i + 1, Len(text)))

\* Lines 175-188, 237-250: the text contains "Final Answer:"; the test comes
\* before the search for a tool-call block at line 254.
FinalAnswerFrom(texts) ==
  /\ TurnGuard
  /\ turn_count' = turn_count + 1
  /\ llm_calls' = llm_calls + 1
  /\ \E text \in texts :
       /\ ContainsMarker(text)
       /\ ai_response_text' = text
       /\ final_answer' = final_answer_of(text)
  /\ response_kind' = "final"
  /\ \E summary \in SummaryOutcomes :
       memory' = Reflect(memory, executed_tools, summary)
  /\ Return(MSG_FINAL)
  /\ FreshLocals
  /\ UNCHANGED <<config, intent, components, executor, registries, callers, ui_confirmation, consecutive_error_count, internal_scratchpad,
                 executed_tools, handlers, rate_limits>>

\* The final answer of a plain response: the marker, then the answer.
FinalAnswer == FinalAnswerFrom({<<Marker, Word>>})

\* What the scratchpad and the ghost record for a response that fails to parse.
UnparsableKind(r) ==
  CASE r.block = "none" -> "no_json"
    [] r.block = "invalid" -> "bad_json"
    [] OTHER -> "not_dict"

\* UnparsableResponse without lines 294-297: feedback, but no abort.
UnparsableResponse_NoAbort ==
  /\ TurnGuard
  /\ \E r \in Responses :
       /\ ParseOutcome(r) \in {"ValueError", "JSONDecodeError"}
       /\ response_kind' = UnparsableKind(r)
  /\ turn_count' = turn_count + 1
  /\ llm_calls' = llm_calls + 1
  /\ internal_scratchpad' =
       ScratchAppend(internal_scratchpad, Entry("PARSE_ERROR"))
  /\ consecutive_error_count' = 1
  /\ Continue
  /\ FreshLocals
  /\ UNCHANGED <<config, answer_text, intent, components, executor, registries, callers, ui_confirmation, executed_tools, handlers, rate_limits, memory>>

\* Lines 253-265, 287-299: the parsing raises ValueError or JSONDecodeError.
UnparsableResponse ==
  /\ TurnGuard
  /\ \E r \in Responses :
       /\ ParseOutcome(r) \in {"ValueError", "JSONDecodeError"}
       /\ response_kind' = UnparsableKind(r)
  /\ turn_count' = turn_count + 1
  /\ llm_calls' = llm_calls + 1
  /\ internal_scratchpad' =
       ScratchAppend(internal_scratchpad, Entry("PARSE_ERROR"))
  /\ CountError(MSG_FORMAT)
  /\ FreshLocals
  /\ UNCHANGED <<config, answer_text, intent, components, executor, registries, callers, ui_confirmation, executed_tools, handlers, rate_limits, memory>>

\* Line 268: the confidence is not a number; the TypeError of the division
\* is not among the exceptions of line 287.
BadConfidenceResponse ==
  /\ TurnGuard
  /\ {r \in Responses : ParseOutcome(r) = "TypeError"} # {}
  /\ turn_count' = turn_count + 1
  /\ llm_calls' = llm_calls + 1
  /\ response_kind' = "bad_confidence"
  /\ Raise("TypeError")
  /\ FreshLocals
  /\ UNCHANGED <<config, answer_text, intent, components, executor, registries, callers, ui_confirmation, consecutive_error_count, internal_scratchpad,
                 executed_tools, handlers, rate_limits, memory>>

\* Lines 272-283: the object parses but proposes no tool call.
NoActionResponse ==
  /\ TurnGuard
  /\ \E answer \in BOOLEAN :
       /\ {r \in Responses :
             ParseOutcome(r) = "ok" /\ NoToolCalls(r) /\ r.answer = answer} # {}
       /\ internal_scratchpad' =
            ScratchAppend(internal_scratchpad,
              Entry(IF answer THEN "NO_ACTION_ANSWER" ELSE "NO_ACTION"))
  /\ turn_count' = turn_count + 1
  /\ llm_calls' = llm_calls + 1
  /\ response_kind' = "no_action"
  /\ CountError(MSG_UNDECIDED)
  /\ FreshLocals
  /\ UNCHANGED <<config, answer_text, intent, components, executor, registries, callers, ui_confirmation, executed_tools, handlers, rate_limits, memory>>

\* Lines 285, 308: tool_calls is truthy but not a list of objects, and the
\* scan of line 308 meets the offending value: AttributeError (TypeError for
\* a number) outside every try block.
BadToolCallsResponse ==
  /\ TurnGuard
  /\ \E confidence \in {ParsedConfidence(r) : r \in
            {x \in Responses : /\ ParseOutcome(x) = "ok"
                               /\ ~NoToolCalls(x)
                               /\ IsDestructiveEval(x) = "AttributeError"}} :
       model_confidence' = confidence
  /\ tool_calls' = <<>>
  /\ turn_count' = turn_count + 1
  /\ llm_calls' = llm_calls + 1
  /\ response_kind' = "bad_tool_calls"
  /\ consecutive_error_count' = 0
  /\ Raise("AttributeError")
  /\ is_destructive' = FALSE
  /\ decision' = "STOP"
  /\ user_confirmed' = FALSE
  /\ all_tool_outputs' = <<>>
  /\ prompted' = FALSE
  /\ tool_output' = NoOutput
  /\ transaction_log' = <<>>
  /\ UNCHANGED <<config, answer_text, intent, components, executor, registries, callers, ui_confirmation, internal_scratchpad, executed_tools, handlers,
                 rate_limits, memory>>

\* Lines 253-331: a plan with tool calls is parsed and gated.
\*   STOP  nothing is appended, the loop goes on (no branch of 316/330 runs)
\*   ASK   a fresh handler is stored in the module global, the UI is prompted
\*         and think blocks in wait_for_response
\*   GO    the plan is executed
PlanResponseFrom(responses) ==
  /\ TurnGuard
  /\ \E r \in responses :
       /\ ParseOutcome(r) = "ok"
       /\ ~NoToolCalls(r)
       /\ IsDestructiveEval(r) \in {"True", "False"}
       /\ model_confidence' = ParsedConfidence(r)
       /\ is_destructive' = (IsDestructiveEval(r) = "True")
       /\ decision' = Decide(model_confidence', is_destructive',
                             CONFIDENCE_THRESHOLD_GO, CONFIDENCE_THRESHOLD_ASK)
       /\ tool_calls' = IF decision' = "STOP" THEN <<>> ELSE r.tool_calls.items
  /\ turn_count' = turn_count + 1
  /\ llm_calls' = llm_calls + 1
  /\ response_kind' = "plan"
  /\ consecutive_error_count' = 0
  /\ user_confirmed' = FALSE
  /\ all_tool_outputs' = <<>>
  /\ prompted' = (decision' = "ASK")
  /\ tool_output' = NoOutput
  /\ transaction_log' = <<>>
  /\ confirmation_handler' =
       IF decision' = "ASK" THEN NewConfirmationHandler ELSE confirmation_handler
  /\ pc' = CASE decision' = "ASK" -> "wait"
             [] decision' = "GO" -> "exec"
             [] OTHER -> "loop"
  /\ UNCHANGED <<config, answer_text, intent, components, executor, registries, callers, ui_confirmation, internal_scratchpad, executed_tools,
                 main_confirmation_handler, rate_limits, memory, result,
                 raised>>

PlanResponse == PlanResponseFrom(Responses)

\* ------------------------------------------------------------ confirmation
\* Line 42: event.wait(timeout) returns, because the event is set or because
\* the timeout has elapsed.
EventWait ==
  /\ pc = "wait"
  /\ pc' = "woken"
  /\ timed_out' = (~confirmation_handler.event /\ first_response = None)
  /\ UNCHANGED <<config, answer_text, intent, components, executor, registries, ui_confirmation, setters, first_response,
                 turn_count, consecutive_error_count, internal_scratchpad,
                 executed_tools, response_kind, turn_locals, handlers,
                 llm_calls, rate_limits, memory, result, raised>>

\* A variant with a defect: a declined plan is executed all the same.
WaitForResponse_ExecutesDeclined ==
  /\ pc = "woken"
  /\ user_confirmed' = confirmation_handler.result
  /\ confirmation_handler' = NoHandler
  /\ pc' = "exec"
  /\ ui_confirmation' = None
  /\ timed_out' = FALSE
  /\ setters' = [c \in Callers |-> Idle]
  /\ first_response' = None
  /\ UNCHANGED <<config, answer_text, intent, components, executor, registries, turn_count, consecutive_error_count,
                 executed_tools, response_kind, is_destructive,
                 model_confidence, decision, all_tool_outputs, tool_output,
                 transaction_log,
                 main_confirmation_handler, prompted, llm_calls, rate_limits,
                 memory, result, raised, internal_scratchpad, tool_calls>>

\* Lines 43, 322-330: wait_for_response returns self.result, the global is
\* set back to None, and a declined plan is fed back.  The object is
\* dropped here, so what a caller still does to it is no longer seen.
WaitForResponse ==
  /\ pc = "woken"
  /\ user_confirmed' = confirmation_handler.result
  /\ confirmation_handler' = NoHandler
  /\ IF user_confirmed'
       THEN /\ pc' = "exec"
            /\ UNCHANGED <<internal_scratchpad, tool_calls>>
       ELSE /\ pc' = "loop"
            /\ tool_calls' = <<>>
            /\ internal_scratchpad' =
                 ScratchAppend(internal_scratchpad, Entry("CANCELLED"))
  /\ ui_confirmation' = None
  /\ timed_out' = FALSE
  /\ setters' = [c \in Callers |-> Idle]
  /\ first_response' = None
  /\ UNCHANGED <<config, answer_text, intent, components, executor, registries, turn_count, consecutive_error_count,
                 executed_tools, response_kind, is_destructive,
                 model_confidence, decision, all_tool_outputs, tool_output,
                 transaction_log,
                 main_confirmation_handler, prompted, llm_calls, rate_limits,
                 memory, result, raised>>

\* main.py lines 81-85, set_user_confirmation: the UI answers.  It resolves
\* the handler held by the global of main.py.
SetUserConfirmation ==
  /\ \E confirmed \in BOOLEAN :
       /\ main_confirmation_handler' =
            IF main_confirmation_handler.obj
              THEN set_response(main_confirmation_handler, confirmed)
              ELSE main_confirmation_handler
       /\ ui_confirmation' =
            IF pc = "wait" /\ ui_confirmation = None
              THEN BoolStr(confirmed) ELSE ui_confirmation
  /\ UNCHANGED <<config, answer_text, intent, components, executor, registries, callers, pc, turn_count,
                 consecutive_error_count, internal_scratchpad, executed_tools,
                 response_kind, turn_locals, confirmation_handler, llm_calls,
                 rate_limits, memory, result, raised>>

\* Line 47, for a caller that holds the handler of commands/agent.py:
\* self.result = confirmed.
SetResponseAssign(c) ==
  /\ pc \in {"wait", "woken"}
  /\ confirmation_handler.obj
  /\ setters[c] = Idle
  /\ \E confirmed \in BOOLEAN :
       /\ confirmation_handler' =
            [confirmation_handler EXCEPT !.result = confirmed]
       /\ setters' = [setters EXCEPT ![c] = "assigned"]
       /\ first_response' =
            IF first_response = None THEN BoolStr(confirmed)
            ELSE first_response
  /\ UNCHANGED <<config, answer_text, intent, components, executor, registries, ui_confirmation, timed_out, pc,
                 turn_count, consecutive_error_count, internal_scratchpad,
                 executed_tools, response_kind, turn_locals,
                 main_confirmation_handler, llm_calls, rate_limits, memory,
                 result, raised>>

\* Line 48: self.event.set().
SetResponseSignal(c) ==
  /\ pc \in {"wait", "woken"}
  /\ setters[c] = "assigned"
  /\ confirmation_handler' = [confirmation_handler EXCEPT !.event = TRUE]
  /\ setters' = [setters EXCEPT ![c] = "set"]
  /\ UNCHANGED <<config, answer_text, intent, components, executor, registries, ui_confirmation, timed_out,
                 first_response, pc, turn_count, consecutive_error_count,
                 internal_scratchpad, executed_tools, response_kind,
                 turn_locals, main_confirmation_handler, llm_calls,
                 rate_limits, memory, result, raised>>

SetResponse == \E c \in Callers : SetResponseAssign(c) \/ SetResponseSignal(c)

\* ---------------------------------------------------------- plan execution
\* What execute_tool hands back for a registered tool: an envelope with
\* status ok, one with status error, or an ok envelope whose data json.dumps
\* cannot serialise.
ToolOutcomes == {"ok", "error", "unserialisable"}

\* A variant with a defect: the lookup goes through the pruned catalogue.
ToolOutput_PrunedLookup(tool_name, outcome) ==
  IF tool_name \notin pruned_tool_defs
    THEN [tool |-> tool_name, status |-> "error", via |-> "not_found"]
    ELSE [tool |-> tool_name, status |-> outcome, via |-> "execute_tool"]

\* A variant with a defect: the callable is run without the lookup.
ToolOutput_NoLookup(tool_name, outcome) ==
  [tool |-> tool_name, status |-> outcome, via |-> "execute_tool"]

\* Lines 343-352.
ToolOutput(tool_name, outcome) ==
  IF tool_name \notin session_tools
    THEN [tool |-> tool_name, status |-> "error", via |-> "not_found"]
    ELSE [tool |-> tool_name, status |-> outcome, via |-> "execute_tool"]

\* python_script_tool.py lines 109-151: create_new_tool returns a string in
\* every case; the name is in the registry afterwards when
\* register_dynamic_tool (dynamic_tool_manager.py line 48) was reached.
Registrations(output) ==
  IF output.tool = "create_new_tool" /\ output.via = "execute_tool"
     /\ output.status = "ok"
    THEN {{}, {DynamicToolName}}
    ELSE {{}}

\* Variants with a defect: the plan goes on after a tool error, and a tool
\* error that is counted as a consecutive error.
ExecuteToolCall_NoFailFast ==
  /\ pc = "exec"
  /\ Len(all_tool_outputs) < Len(tool_calls)
  /\ LET tool_name == tool_calls[Len(all_tool_outputs) + 1] IN
     \E outcome \in ToolOutcomes :
       LET output == ToolOutput(tool_name, outcome)
           outputs == Append(all_tool_outputs, output)
       IN
       IF tool_name = Junk
         THEN /\ Raise("AttributeError")
              /\ UNCHANGED <<executed_tools, tool_calls, all_tool_outputs,
                             internal_scratchpad, tool_output,
                             transaction_log,
                             DYNAMIC_TOOL_REGISTRY>>
         ELSE
           /\ executed_tools' = executed_tools \cup {tool_name}
           /\ tool_output' = output
           /\ \E registered \in Registrations(output) :
                DYNAMIC_TOOL_REGISTRY' = DYNAMIC_TOOL_REGISTRY \cup registered
           /\ transaction_log' =
                IF output.status = "unserialisable"
                  THEN transaction_log
                  ELSE log_tool_execution(transaction_log, tool_name,
                                          output.status = "ok")
           /\ IF output.status = "unserialisable"
                THEN /\ Raise("TypeError")
                     /\ UNCHANGED <<tool_calls, all_tool_outputs,
                                    internal_scratchpad>>
                ELSE IF Len(outputs) = Len(tool_calls)
                  THEN /\ internal_scratchpad' =
                            ScratchAppend(internal_scratchpad,
                                          ResultsEntry(outputs))
                       /\ tool_calls' = <<>>
                       /\ all_tool_outputs' = <<>>
                       /\ Continue
                  ELSE /\ all_tool_outputs' = outputs
                       /\ UNCHANGED <<tool_calls, internal_scratchpad, pc,
                                      result, raised>>
  /\ UNCHANGED <<config, answer_text, intent, components, executor, session_tools, callers, ui_confirmation, turn_count,
                 consecutive_error_count, response_kind, is_destructive,
                 model_confidence, decision, user_confirmed, handlers,
                 prompted, llm_calls, rate_limits, memory>>

ExecuteToolCall_ErrorCounts ==
  /\ pc = "exec"
  /\ Len(all_tool_outputs) < Len(tool_calls)
  /\ LET tool_name == tool_calls[Len(all_tool_outputs) + 1] IN
     \E outcome \in ToolOutcomes :
       LET output == ToolOutput(tool_name, outcome)
           outputs == Append(all_tool_outputs, output)
       IN
       IF tool_name = Junk
         THEN /\ Raise("AttributeError")
              /\ UNCHANGED <<executed_tools, tool_calls, all_tool_outputs,
                             internal_scratchpad, tool_output,
                             transaction_log,
                             DYNAMIC_TOOL_REGISTRY, consecutive_error_count>>
         ELSE
           /\ executed_tools' = executed_tools \cup {tool_name}
           /\ tool_output' = output
           /\ consecutive_error_count' =
                IF output.status = "error" THEN consecutive_error_count + 1
                ELSE consecutive_error_count
           /\ \E registered \in Registrations(output) :
                DYNAMIC_TOOL_REGISTRY' = DYNAMIC_TOOL_REGISTRY \cup registered
           /\ transaction_log' =
                IF output.status = "unserialisable"
                  THEN transaction_log
                  ELSE log_tool_execution(transaction_log, tool_name,
                                          output.status = "ok")
           /\ IF output.status = "unserialisable"
                THEN /\ Raise("TypeError")
                     /\ UNCHANGED <<tool_calls, all_tool_outputs,
                                    internal_scratchpad>>
                ELSE IF output.status = "error"
                        \/ Len(outputs) = Len(tool_calls)
                  THEN /\ internal_scratchpad' =
                            ScratchAppend(internal_scratchpad,
                                          ResultsEntry(outputs))
                       /\ tool_calls' = <<>>
                       /\ all_tool_outputs' = <<>>
                       /\ Continue
                  ELSE /\ all_tool_outputs' = outputs
                       /\ UNCHANGED <<tool_calls, internal_scratchpad, pc,
                                      result, raised>>
  /\ UNCHANGED <<config, answer_text, intent, components, executor, session_tools, callers, ui_confirmation, turn_count,
                 response_kind, is_destructive,
                 model_confidence, decision, user_confirmed, handlers,
                 prompted, llm_calls, rate_limits, memory>>

\* Lines 335-374: one pass of the for loop, and with the last pass (or the
\* first error status) lines 373-374.  json.dumps at line 354 raises before
\* log_tool_execution at line 358 is reached.
ExecuteToolCall ==
  /\ pc = "exec"
  /\ Len(all_tool_outputs) < Len(tool_calls)
  /\ LET tool_name == tool_calls[Len(all_tool_outputs) + 1] IN
     \E outcome \in ToolOutcomes :
       LET output == ToolOutput(tool_name, outcome)
           outputs == Append(all_tool_outputs, output)
       IN
       IF tool_name = Junk
         THEN /\ Raise("AttributeError")
              /\ UNCHANGED <<executed_tools, tool_calls, all_tool_outputs,
                             internal_scratchpad, tool_output,
                             transaction_log,
                             DYNAMIC_TOOL_REGISTRY>>
         ELSE
           /\ executed_tools' = executed_tools \cup {tool_name}
           /\ tool_output' = output
           /\ \E registered \in Registrations(output) :
                DYNAMIC_TOOL_REGISTRY' = DYNAMIC_TOOL_REGISTRY \cup registered
           /\ transaction_log' =
                IF output.status = "unserialisable"
                  THEN transaction_log
                  ELSE log_tool_execution(transaction_log, tool_name,
                                          output.status = "ok")
           /\ IF output.status = "unserialisable"
                THEN /\ Raise("TypeError")
                     /\ UNCHANGED <<tool_calls, all_tool_outputs,
                                    internal_scratchpad>>
                ELSE IF output.status = "error"
                        \/ Len(outputs) = Len(tool_calls)
                  THEN /\ internal_scratchpad' =
                            ScratchAppend(internal_scratchpad,
                                          ResultsEntry(outputs))
                       /\ tool_calls' = <<>>
                       /\ all_tool_outputs' = <<>>
                       /\ Continue
                  ELSE /\ all_tool_outputs' = outputs
                       /\ UNCHANGED <<tool_calls, internal_scratchpad, pc,
                                      result, raised>>
  /\ UNCHANGED <<config, answer_text, intent, components, executor, session_tools, callers, ui_confirmation, turn_count,
                 consecutive_error_count, response_kind, is_destructive,
                 model_confidence, decision, user_confirmed, handlers,
                 prompted, llm_calls, rate_limits, memory>>

\* -------------------------------------------------------------------- Next
Next ==
  \/ BudgetExhausted
  \/ RateLimited
  \/ InternalServerError
  \/ OtherException
  \/ EmptyResponse
  \/ FinalAnswer
  \/ UnparsableResponse
  \/ BadConfidenceResponse
  \/ NoActionResponse
  \/ BadToolCallsResponse
  \/ PlanResponse
  \/ EventWait
  \/ WaitForResponse
  \/ SetUserConfirmation
  \/ ExecuteToolCall

Spec == Init /\ [][Next]_vars

\* ------------------------------------------------- a model that always plans
\* Episodes in which every LLM call succeeds and returns a well-formed plan
\* that is decided GO (the stub of the turn-budget test).
GoPlanResponse == PlanResponse /\ decision' = "GO"

AlwaysGoNext ==
  \/ GoPlanResponse
  \/ ExecuteToolCall
  \/ BudgetExhausted

SpecAlwaysGo == Init /\ [][AlwaysGoNext]_vars

\* ------------------------------------------- execute_tool on its own
\* One call of execute_tool, for every raw_args and every callable.
ExecutorInit ==
  /\ CONFIDENCE_THRESHOLD_GO = 80
  /\ CONFIDENCE_THRESHOLD_ASK = 50
  /\ EpisodeStart
  /\ FreshRegistry
  /\ exec_pc = "called"
  /\ raw_args \in RawArgs
  /\ tool_func \in ToolBehaviours
  /\ invocations = 0
  /\ envelope = NoEnvelope
  /\ propagated = None
  /\ ComponentsIdle
  /\ relevant_categories = classify_intent({})

ExecutorNext == ExecuteToolValidate \/ ExecuteToolInvoke

SpecExecutor == ExecutorInit /\ [][ExecutorNext]_vars

\* ------------------------------------------- a caller that holds the handler
\* Episodes of plans in which threads that hold the handler of
\* commands/agent.py call set_response on it while think waits, and in which
\* the plans name create_new_tool and the tool it registers.  The registry
\* may hold the tool from an earlier episode of the process.
DynamicPlanItems == {"create_new_tool", DynamicToolName}

DynamicPlans == UNION {[1..n -> DynamicPlanItems] : n \in 1..MaxPlanLen}

DynamicResponses ==
  {[block |-> "dict", confidence |-> [shape |-> "number", value |-> v],
    tool_calls |-> [shape |-> "list", items |-> p], answer |-> FALSE] :
      v \in ConfidenceValues, p \in DynamicPlans}

DynamicPlanResponse == PlanResponseFrom(DynamicResponses)

ResolvedInit ==
  /\ CONFIDENCE_THRESHOLD_GO = 80
  /\ CONFIDENCE_THRESHOLD_ASK = 50
  /\ EpisodeStart
  /\ ExecutorIdle
  /\ ComponentsIdle
  /\ relevant_categories = classify_intent({})
  /\ DYNAMIC_TOOL_REGISTRY \in {{}, {DynamicToolName}}
  /\ session_tools = TOOL_DEFINITIONS \cup DYNAMIC_TOOL_REGISTRY

ResolvedNext ==
  \/ DynamicPlanResponse
  \/ EventWait
  \/ WaitForResponse
  \/ SetResponse
  \/ ExecuteToolCall
  \/ BudgetExhausted

SpecResolved == ResolvedInit /\ [][ResolvedNext]_vars

\* ------------------------------------------------------------ gating alone
\* The decision of lines 304-313 over a grid of threshold values: episodes
\* in which every response is a plan (think returns to the loop head after
\* each STOP), started fresh or after one empty response.
GateThresholdValues == {0, 10, 20, 30, 40, 50, 60, 70, 80, 90, 100}

AfterEmptyResponse ==
  /\ pc = "loop"
  /\ turn_count = 1
  /\ consecutive_error_count = 1
  /\ internal_scratchpad = ScratchAppend(EmptyScratchpad, Entry("EMPTY"))
  /\ executed_tools = {}
  /\ response_kind = "empty"
  /\ tool_calls = <<>>
  /\ is_destructive = FALSE
  /\ model_confidence = 0
  /\ decision = None
  /\ user_confirmed = FALSE
  /\ all_tool_outputs = <<>>
  /\ confirmation_handler = NoHandler
  /\ main_confirmation_handler = NoHandler
  /\ prompted = FALSE
  /\ llm_calls = 1
  /\ rate_limits = 0
  /\ memory = <<>>
  /\ result = None
  /\ raised = None
  /\ tool_output = NoOutput
  /\ transaction_log = <<>>
  /\ ai_response_text = <<>>
  /\ final_answer = <<>>
  /\ ui_confirmation = None
  /\ timed_out = FALSE
  /\ setters = [c \in Callers |-> Idle]
  /\ first_response = None

GateInit ==
  /\ FreshRegistry
  /\ ExecutorIdle
  /\ ComponentsIdle
  /\ relevant_categories = classify_intent({})
  /\ CONFIDENCE_THRESHOLD_GO \in GateThresholdValues
  /\ CONFIDENCE_THRESHOLD_ASK \in GateThresholdValues
  /\ (EpisodeStart \/ AfterEmptyResponse)

GateNext == PlanResponse

SpecGate == GateInit /\ [][GateNext]_vars

\* ===================================================================== C1
\* C1: no tool call of a plan that contains a destructive tool is executed
\* unless the user confirmed that plan in the same turn, whatever the
\* confidence: while such a plan is being executed user_confirmed is TRUE,
\* and without confirmation it has produced no tool output.
C1_DestructiveNeedsConfirmation ==
  is_destructive =>
    /\ (pc = "exec" => user_confirmed /\ decision = "ASK")
    /\ (~user_confirmed => all_tool_outputs = <<>>)

\* A destructive plan at or above the GO threshold was gated to ASK, was not
\* confirmed, and the loop went on without running it.
C1_Witness ==
  /\ pc = "loop"
  /\ response_kind = "plan"
  /\ is_destructive
  /\ model_confidence >= CONFIDENCE_THRESHOLD_GO
  /\ decision = "ASK"
  /\ ~user_confirmed
  /\ internal_scratchpad.last.kind = "CANCELLED"

\* ===================================================================== C2
\* C2: a plan with a destructive tool and confidence below the ASK threshold
\* is decided STOP: no confirmation handler is created, the user is not
\* prompted, think does not block or execute, and the gating step leaves the
\* executed tools as they were.
C2_StopState ==
  (response_kind = "plan" /\ is_destructive
     /\ model_confidence < CONFIDENCE_THRESHOLD_ASK) =>
    /\ decision = "STOP"
    /\ pc \in {"loop", "done"}
    /\ ~prompted
    /\ confirmation_handler = NoHandler
    /\ tool_calls = <<>>
    /\ all_tool_outputs = <<>>

C2_StopStep ==
  (llm_calls' = llm_calls + 1 /\ response_kind' = "plan" /\ is_destructive'
     /\ model_confidence' < CONFIDENCE_THRESHOLD_ASK) =>
    /\ executed_tools' = executed_tools
    /\ confirmation_handler' = confirmation_handler
    /\ pc' = "loop"

C2_DestructiveLowConfidenceStops == [](C2_StopState) /\ [][C2_StopStep]_vars

\* A destructive plan below the ASK threshold was stopped although its
\* confidence reaches the GO threshold.
C2_Witness ==
  /\ response_kind = "plan"
  /\ is_destructive
  /\ model_confidence < CONFIDENCE_THRESHOLD_ASK
  /\ model_confidence >= CONFIDENCE_THRESHOLD_GO
  /\ decision = "STOP"
  /\ pc = "loop"

\* ===================================================================== C3
\* C3: for a plan without destructive tool and thresholds with ASK <= GO the
\* decision is GO iff confidence >= GO, ASK iff ASK <= confidence < GO and
\* STOP iff confidence < ASK, at every turn and after any earlier decision.
C3_GatingTable ==
  (response_kind = "plan" /\ ~is_destructive
     /\ CONFIDENCE_THRESHOLD_ASK <= CONFIDENCE_THRESHOLD_GO) =>
    /\ (decision = "GO") <=> (model_confidence >= CONFIDENCE_THRESHOLD_GO)
    /\ (decision = "ASK") <=>
         (/\ CONFIDENCE_THRESHOLD_ASK <= model_confidence
          /\ model_confidence < CONFIDENCE_THRESHOLD_GO)
    /\ (decision = "STOP") <=> (model_confidence < CONFIDENCE_THRESHOLD_ASK)

\* A harmless plan whose confidence equals the GO threshold was decided GO
\* at a later turn, after a response that was stopped.
C3_Witness ==
  /\ response_kind = "plan"
  /\ ~is_destructive
  /\ CONFIDENCE_THRESHOLD_ASK < CONFIDENCE_THRESHOLD_GO
  /\ model_confidence = CONFIDENCE_THRESHOLD_GO
  /\ decision = "GO"
  /\ turn_count > 2
  /\ internal_scratchpad # EmptyScratchpad

\* ===================================================================== C4
\* C4: with a model that always returns an approved (GO) plan and no LLM
\* failure, think makes exactly max_turns_failsafe LLM calls, never one more,
\* and then returns the budget-exhausted message.
C4_BudgetAfterMaxTurnsCalls ==
  /\ llm_calls <= max_turns_failsafe
  /\ pc \in {"done", "raised"} =>
       /\ pc = "done"
       /\ result = MSG_BUDGET
       /\ llm_calls = max_turns_failsafe

\* ===================================================================== C5
\* C5: a ResourceExhausted failure of the LLM call does not consume a turn:
\* after it the turn counter, the scratchpad, the consecutive-error count
\* and the executed tools are what they were before the call.
C5_RateLimitStep ==
  (rate_limits' = rate_limits + 1) =>
    /\ llm_calls' = llm_calls + 1
    /\ turn_count' = turn_count
    /\ internal_scratchpad' = internal_scratchpad
    /\ consecutive_error_count' = consecutive_error_count
    /\ executed_tools' = executed_tools
    /\ pc' = "loop"

C5_RateLimitKeepsTurn == [][C5_RateLimitStep]_vars

\* The most recent call was rate limited in an episode that had already
\* used a turn, executed a tool and counted an error.
C5_Witness ==
  /\ response_kind = "rate_limit"
  /\ rate_limits = 1
  /\ turn_count >= 2
  /\ llm_calls = turn_count + 1
  /\ consecutive_error_count = 1
  /\ executed_tools # {}
  /\ pc = "loop"

\* ===================================================================== C6
\* C6: an InternalServerError of the LLM call consumes one turn, appends
\* system feedback to the scratchpad and increments the consecutive-error
\* count; when the turn before also failed that way (more generally, when
\* the count was already 1) the episode ends with the API-errors message.
C6_ServerErrorStep ==
  (llm_calls' = llm_calls + 1 /\ response_kind' = "server_error") =>
    /\ turn_count' = turn_count + 1
    /\ internal_scratchpad' =
         ScratchAppend(internal_scratchpad, Entry("SYSTEM_ERROR"))
    /\ consecutive_error_count' = consecutive_error_count + 1
    /\ (response_kind = "server_error" \/ consecutive_error_count >= 1) =>
         (pc' = "done" /\ result' = MSG_API)
    /\ (consecutive_error_count = 0) => (pc' = "loop" /\ result' = None)

C6_ServerErrorConsumesTurn == [][C6_ServerErrorStep]_vars

\* The episode was ended by a server error well before the turn budget.
C6_Witness ==
  /\ pc = "done"
  /\ result = MSG_API
  /\ response_kind = "server_error"
  /\ consecutive_error_count = max_consecutive_errors
  /\ internal_scratchpad.last.kind = "SYSTEM_ERROR"
  /\ turn_count = 2
  /\ llm_calls = 2

\* ===================================================================== C7
\* C7: any other exception of the LLM call ends the episode at once: think
\* returns the critical-error string, and from then on there is no LLM call,
\* no tool execution and no memory record.
C7_FatalStep ==
  (llm_calls' = llm_calls + 1 /\ response_kind' = "exception") =>
    /\ pc' = "done"
    /\ result' = MSG_CRITICAL
    /\ executed_tools' = executed_tools
    /\ memory' = memory

C7_AfterFatal ==
  (result = MSG_CRITICAL) =>
    /\ llm_calls' = llm_calls
    /\ executed_tools' = executed_tools
    /\ memory' = memory
    /\ pc' = "done"
    /\ result' = result

C7_OtherExceptionIsFatal == [][C7_FatalStep /\ C7_AfterFatal]_vars

\* The fatal error came after tools had been executed; nothing was written
\* to memory.
C7_Witness ==
  /\ pc = "done"
  /\ result = MSG_CRITICAL
  /\ response_kind = "exception"
  /\ executed_tools # {}
  /\ memory = <<>>
  /\ turn_count >= 2

\* ===================================================================== C8
UnparsableKinds == {"no_json", "bad_json", "not_dict"}

\* Two unparsable outputs of consecutive LLM calls.
C8_SecondUnparsable ==
  /\ llm_calls' = llm_calls + 1
  /\ response_kind \in UnparsableKinds
  /\ response_kind' \in UnparsableKinds

\* C8 as stated: two consecutive unparsable model outputs end the episode on
\* the second one, after exactly two LLM calls, with the "could not decide"
\* message.
C8_Original ==
  [][C8_SecondUnparsable =>
       /\ pc' = "done"
       /\ result' = MSG_UNDECIDED
       /\ (llm_calls = 1 => llm_calls' = 2)]_vars

\* C8 amended: two consecutive unparsable model outputs end the episode on
\* the second one (after exactly two LLM calls when they are the first two),
\* and the string returned is the "failed to format its response correctly"
\* message; an episode that has returned makes no further LLM call.
C8_AmendedStep ==
  /\ C8_SecondUnparsable =>
       /\ pc' = "done"
       /\ result' = MSG_FORMAT
       /\ turn_count' = turn_count + 1
       /\ (llm_calls = 1 => llm_calls' = 2)
  /\ (result = MSG_FORMAT) => (llm_calls' = llm_calls /\ pc' = "done")

C8_Amended == [][C8_AmendedStep]_vars

\* The first two responses were unparsable and the episode has returned.
C8_Witness ==
  /\ pc = "done"
  /\ result = MSG_FORMAT
  /\ response_kind \in UnparsableKinds
  /\ llm_calls = 2
  /\ turn_count = 2
  /\ consecutive_error_count = max_consecutive_errors

\* ===================================================================== C9
\* C9: every response that is neither a final answer nor a well-formed plan
\* (no fenced block, invalid JSON, a non-object, a non-numeric confidence, a
\* tool_calls value that is not a list of objects) is handled as a parse
\* failure: feedback is appended, the consecutive-error count is
\* incremented, and no exception escapes think.
C9_MalformedIsParseFailure ==
  (response_kind \in UnparsableKinds \cup {"bad_confidence", "bad_tool_calls"})
    => /\ raised = None
       /\ pc \in {"loop", "done"}
       /\ internal_scratchpad.last.kind = "PARSE_ERROR"
       /\ consecutive_error_count >= 1

\* ==================================================================== C10
\* C10: think always ends by returning a string (the final answer or one of
\* its failure messages), never by a propagated exception.
C10_AlwaysReturnsString ==
  /\ raised = None
  /\ pc # "raised"
  /\ (pc = "done") => (result \in FailureMessages \cup {MSG_FINAL})

\* ==================================================================== C11
\* C11: when an ASK plan is declined (a caller answered False, or nobody
\* answered before the timeout), no tool call of the plan is executed, one
\* feedback entry is appended to the scratchpad and think goes back to the
\* head of the loop without returning or raising; the execution branch is
\* only ever entered with decision GO or a confirmed plan.
C11_DeclineStep ==
  (pc = "woken" /\ pc' # "woken" /\ ~user_confirmed')
    => /\ pc' = "loop"
       /\ internal_scratchpad' =
            ScratchAppend(internal_scratchpad, Entry("CANCELLED"))
       /\ executed_tools' = executed_tools
       /\ tool_output' = NoOutput
       /\ transaction_log' = <<>>
       /\ all_tool_outputs' = <<>>
       /\ result' = None
       /\ raised' = None
       /\ turn_count' = turn_count

C11_DeclineFeedsBack ==
  [](pc = "exec" => (decision = "GO" \/ user_confirmed))
  /\ [][C11_DeclineStep]_vars

\* A plan was asked about and declined, and think is back at the loop head.
C11_Witness ==
  /\ pc = "loop"
  /\ decision = "ASK"
  /\ ~user_confirmed
  /\ internal_scratchpad.last.kind = "CANCELLED"
  /\ result = None

\* ==================================================================== C12
\* C12: a planning thread blocked in wait_for_response resumes when the
\* timeout elapses (EventWait is enabled in every state with pc = "wait"),
\* and if no set_response had begun on the handler when the timeout
\* elapsed, the value the thread obtains is False.
C12_TimeoutStep ==
  (pc = "woken" /\ pc' # "woken" /\ timed_out) => user_confirmed' = FALSE

C12_TimeoutResolvesDeclined == [][C12_TimeoutStep]_vars

\* ==================================================================== C13
\* C13: while think is blocked in ASK, a signal set_user_confirmation(c)
\* from the UI reaches the handler think waits on: the event is set, the
\* wait returns c, c = True leads to the execution of the plan and
\* c = False to the decline path.
C13_SignalSetsEvent ==
  (pc = "woken" /\ ui_confirmation # None) => confirmation_handler.event

C13_SignalStep ==
  (pc = "woken" /\ pc' # "woken" /\ ui_confirmation # None)
    => /\ user_confirmed' = (ui_confirmation = "True")
       /\ pc' = IF ui_confirmation = "True" THEN "exec" ELSE "loop"

C13_UiSignalReachesHandler ==
  [](C13_SignalSetsEvent) /\ [][C13_SignalStep]_vars

\* ==================================================================== C14
\* C14: a handler is resolved at most once: after the first set_response,
\* a later set_response changes neither the handler's result nor the value
\* the waiting thread obtains, under every interleaving of the waiter and
\* the callers.
C14_ResultKept ==
  (confirmation_handler.obj /\ first_response # None)
    => confirmation_handler.result = (first_response = "True")

C14_ObtainedStep ==
  (pc = "woken" /\ pc' # "woken" /\ first_response # None)
    => user_confirmed' = (first_response = "True")

C14_ResolvedAtMostOnce == [](C14_ResultKept) /\ [][C14_ObtainedStep]_vars

\* ==================================================================== C15
\* C15: within one approved plan the tool calls are executed strictly in
\* list order, one at a time (each step of the execution runs exactly the
\* call that follows the ones already run), and once a call has returned
\* status error no later call of the plan is executed (no recorded output
\* follows an output with status error).
Executing == pc = "exec" /\ Len(all_tool_outputs) < Len(tool_calls)

NextCall == tool_calls[Len(all_tool_outputs) + 1]

C15_OrderStep ==
  (Executing /\ vars' # vars /\ pc' # "raised")
    => /\ tool_output'.tool = NextCall
       /\ executed_tools' = executed_tools \cup {NextCall}
       /\ IF pc' = "exec"
            THEN /\ all_tool_outputs' = Append(all_tool_outputs, tool_output')
                 /\ tool_calls' = tool_calls
            ELSE internal_scratchpad'.last =
                   ResultsEntry(Append(all_tool_outputs, tool_output'))

C15_NothingAfterError ==
  /\ \A i \in 1..Len(all_tool_outputs) : all_tool_outputs[i].status = "ok"
  /\ \A i \in 1..(Len(internal_scratchpad.last.outputs) - 1) :
        internal_scratchpad.last.outputs[i].status = "ok"

C15_InOrderFailFast == [](C15_NothingAfterError) /\ [][C15_OrderStep]_vars

\* The first call of a longer plan has run and the next one is pending.
C15_Witness ==
  /\ Executing
  /\ Len(tool_calls) >= 2
  /\ Len(all_tool_outputs) >= 1
  /\ tool_output = all_tool_outputs[Len(all_tool_outputs)]

\* ==================================================================== C16
\* C16: a tool error inside an approved plan does not end the episode: the
\* step appends exactly one scratchpad entry holding the results of the
\* calls run so far, the failing one last, think is back at the loop head
\* with nothing returned or raised, and the consecutive-error count is
\* unchanged.
C16_ToolErrorStep ==
  (Executing /\ vars' # vars /\ tool_output'.status = "error")
    => /\ tool_output'.tool = NextCall
       /\ internal_scratchpad' =
            ScratchAppend(internal_scratchpad,
                          ResultsEntry(Append(all_tool_outputs, tool_output')))
       /\ pc' = "loop"
       /\ result' = None
       /\ raised' = None
       /\ consecutive_error_count' = consecutive_error_count
       /\ turn_count' = turn_count

C16_ToolErrorContinues == [][C16_ToolErrorStep]_vars

\* The second call of a plan failed after the first had succeeded.
C16_Witness ==
  /\ pc = "loop"
  /\ tool_output.status = "error"
  /\ tool_output.via = "execute_tool"
  /\ Len(internal_scratchpad.last.outputs) >= 2
  /\ internal_scratchpad.last.outputs[1].status = "ok"
  /\ result = None

\* ==================================================================== C17
\* C17: a tool call whose name is not in the session tool set gets a
\* status-error result from the lookup itself (execute_tool, hence any
\* callable, is not reached), nothing is raised, and the result is treated
\* like any tool error: the plan halts, the result is recorded in the
\* scratchpad and think goes on with the next turn.
C17_UnknownToolStep ==
  (Executing /\ vars' # vars /\ NextCall # Junk
   /\ NextCall \notin session_tools)
    => /\ tool_output' = [tool |-> NextCall, status |-> "error",
                          via |-> "not_found"]
       /\ internal_scratchpad' =
            ScratchAppend(internal_scratchpad,
                          ResultsEntry(Append(all_tool_outputs, tool_output')))
       /\ pc' = "loop"
       /\ result' = None
       /\ raised' = None

C17_UnknownToolIsToolError == [][C17_UnknownToolStep]_vars

\* An unregistered name was looked up in the second position of a plan.
C17_Witness ==
  /\ pc = "loop"
  /\ tool_output.via = "not_found"
  /\ tool_output.tool \notin session_tools
  /\ Len(internal_scratchpad.last.outputs) >= 2
  /\ result = None

\* ==================================================================== C18
\* C18: execute_tool calls the callable at most once per call and only
\* when raw_args validated against args_model; whenever a required field is
\* missing or a value cannot be converted to its declared type, the result
\* is {status: error, error_code: validation_error} and the callable was
\* called zero times.
C18_ArgsValid ==
  raw_args.mapping /\ \A f \in ArgFields : raw_args.fields[f] = "convertible"

C18_InvalidField ==
  raw_args.mapping
  /\ \E f \in ArgFields : raw_args.fields[f] \in {"absent", "not_convertible"}

C18_ValidatedBeforeInvoked ==
  /\ invocations <= 1
  /\ (invocations = 1 => C18_ArgsValid)
  /\ (exec_pc \in {"validated", "returned", "raised"} /\ C18_InvalidField)
       => /\ exec_pc = "returned"
          /\ envelope.status = "error"
          /\ envelope.error_code = "validation_error"
          /\ invocations = 0

\* A call with a missing field and one with a value of the wrong type have
\* returned; this one lacks "query".
C18_Witness ==
  /\ exec_pc = "returned"
  /\ raw_args.mapping
  /\ raw_args.fields["query"] = "absent"
  /\ raw_args.fields["limit"] = "not_convertible"
  /\ envelope.error_code = "validation_error"
  /\ invocations = 0

\* ==================================================================== C19
\* C19: execute_tool never propagates an exception: for every raw_args and
\* every callable outcome (a return, or a raise of any exception class) it
\* returns an envelope with status ok and the callable's return value as
\* data, or status error with error_code validation_error or the class
\* name of the raised exception.
C19_Envelope ==
  \/ /\ envelope.status = "ok"
     /\ tool_func.returns
     /\ envelope.data = tool_func.value
  \/ /\ envelope.status = "error"
     /\ envelope.error_code \in
          {"validation_error"}
          \cup (IF invocations = 0 THEN {"TypeError"}
                ELSE IF tool_func.returns THEN {}
                ELSE {tool_func.value})

C19_NeverPropagates ==
  /\ exec_pc # "raised"
  /\ propagated = None
  /\ (exec_pc = "returned" => C19_Envelope)

\* ==================================================================== C20
\* C20: once create_new_tool has registered the new tool in some turn of an
\* episode, a tool call naming the new tool in a later turn of the same
\* episode is resolved and run through execute_tool like a static tool; it
\* is not answered with "Tool ... not found".
C20_DynamicToolStep ==
  (/\ Executing
   /\ vars' # vars
   /\ NextCall = DynamicToolName
   /\ DynamicToolName \in DYNAMIC_TOOL_REGISTRY
   /\ \A i \in 1..Len(all_tool_outputs) :
         all_tool_outputs[i].tool # "create_new_tool")
    => tool_output'.via = "execute_tool"

C20_NewToolCallableLater == [][C20_DynamicToolStep]_vars

\* ==================================================================== C23
\* C23: when the gating decision is STOP the rejected plan is fed back: the
\* turn appends a feedback entry to the scratchpad, so the prompt of the
\* next turn (system prompt, tool catalogue, memories, goal and the joined
\* scratchpad, lines 179-185) differs from the one that gave the plan.
C23_StopStep ==
  (pc = "loop" /\ response_kind' = "plan" /\ llm_calls' = llm_calls + 1
   /\ decision' = "STOP")
    => /\ internal_scratchpad'.odd # internal_scratchpad.odd
       /\ internal_scratchpad' # internal_scratchpad

C23_StopIsFedBack == [][C23_StopStep]_vars

\* ------------------------------------------ create_new_tool on its own
\* One call of create_new_tool, for every source, requested name and
\* registry content.
CreateInit ==
  /\ CONFIDENCE_THRESHOLD_GO = 80
  /\ CONFIDENCE_THRESHOLD_ASK = 50
  /\ EpisodeStart
  /\ ExecutorIdle
  /\ DYNAMIC_TOOL_REGISTRY \in SUBSET CreatableNames
  /\ session_tools = TOOL_DEFINITIONS
  /\ create_pc = "called"
  /\ python_code \in Sources
  /\ new_tool_name \in CreatableNames
  /\ schema_raises \in BOOLEAN
  /\ create_result = None
  /\ HistorianIdle
  /\ BackgroundIdle
  /\ UnitsIdle
  /\ relevant_categories = classify_intent({})

CreateNext == CreateNewTool

SpecCreate == CreateInit /\ [][CreateNext]_vars

\* ==================================================================== C21
\* C21: a failed dynamic registration returns an error value without raising
\* and leaves DYNAMIC_TOOL_REGISTRY exactly as it was, when the source has a
\* syntax error, when its first statement is not a function definition, when
\* the function name differs from tool_name, and when schema construction
\* raises.
C21_FirstIsFunction ==
  /\ python_code.parses
  /\ Len(python_code.body) >= 1
  /\ python_code.body[1].kind = "FunctionDef"

C21_FailureCase ==
  \/ ~python_code.parses
  \/ ~C21_FirstIsFunction
  \/ python_code.body[1].name # new_tool_name
  \/ schema_raises

C21_ErrorValues ==
  {"Syntax Error in Python code",
   "Error: Code must contain exactly one function definition.",
   "Error: Function name must match tool_name",
   "Unexpected error during tool creation",
   "Failed to register tool"}

C21_FailedStep ==
  (create_pc = "called" /\ C21_FailureCase /\ vars' # vars)
    => /\ create_pc' = "returned"
       /\ create_result' \in C21_ErrorValues
       /\ DYNAMIC_TOOL_REGISTRY' = DYNAMIC_TOOL_REGISTRY

C21_FailedRegistrationLeavesRegistry == [][C21_FailedStep]_vars

\* Schema construction raised for a well-formed source whose name is new.
C21_Witness ==
  /\ create_pc = "returned"
  /\ C21_FirstIsFunction
  /\ Len(python_code.body) = 1
  /\ python_code.body[1].name = new_tool_name
  /\ schema_raises
  /\ new_tool_name \notin DYNAMIC_TOOL_REGISTRY
  /\ create_result = "Failed to register tool"

\* ==================================================================== C22
\* C22: create_new_tool fails, and the tool does not enter the tool set,
\* whenever the source contains anything other than exactly one top-level
\* function definition, in particular two function definitions or a function
\* definition followed by further top-level statements.
C22_ExactlyOneFunction ==
  /\ python_code.parses
  /\ Len(python_code.body) = 1
  /\ python_code.body[1].kind = "FunctionDef"

C22_RejectStep ==
  (create_pc = "called" /\ ~C22_ExactlyOneFunction /\ vars' # vars)
    => /\ create_result' \in C21_ErrorValues
       /\ DYNAMIC_TOOL_REGISTRY' = DYNAMIC_TOOL_REGISTRY

C22_OnlySingleFunctionAccepted == [][C22_RejectStep]_vars

\* ------------------------------------------------ the ways an episode ends
\* Episodes whose plans are all decided GO, with every ending of think:
\* final answer, turn budget, consecutive-error abort, fatal LLM error.
EndingsNext ==
  \/ GoPlanResponse
  \/ ExecuteToolCall
  \/ FinalAnswer
  \/ EmptyResponse
  \/ UnparsableResponse
  \/ InternalServerError
  \/ OtherException
  \/ BudgetExhausted

SpecEndings == ResolvedInit /\ [][EndingsNext]_vars

C24_EndedWithoutRecord ==
  /\ pc = "done"
  /\ result \in {MSG_BUDGET, MSG_STUCK, MSG_API, MSG_CRITICAL}

\* ==================================================================== C25
\* C25: every tool call think dispatches appends exactly one record to the
\* transaction log, in execution order, with success = (status is ok), and
\* no step rewrites or removes a record written during the plan.
C25_DispatchStep ==
  (Executing /\ NextCall # Junk /\ vars' # vars)
    => transaction_log' =
         Append(transaction_log,
                [tool_name |-> NextCall,
                 success |-> tool_output'.status = "ok"])

C25_KeptStep ==
  (pc \in {"exec", "wait", "woken"} /\ pc' \in {"exec", "wait", "woken"})
    => /\ Len(transaction_log') >= Len(transaction_log)
       /\ SubSeq(transaction_log', 1, Len(transaction_log)) = transaction_log

C25_OneRecordPerCall == [][C25_DispatchStep /\ C25_KeptStep]_vars

\* --------------------------------------------- episodes for every goal
\* Episodes whose plans are all decided GO, for every classification of the
\* goal.
PrunedInit ==
  /\ CONFIDENCE_THRESHOLD_GO = 80
  /\ CONFIDENCE_THRESHOLD_ASK = 50
  /\ EpisodeStart
  /\ ExecutorIdle
  /\ ComponentsIdle
  /\ FreshRegistry
  /\ \E goal \in Goals : relevant_categories = classify_intent(goal)

SpecPruned == PrunedInit /\ [][AlwaysGoNext]_vars

\* ==================================================================== C26
\* C26: intent-based pruning affects only the catalogue placed in the
\* prompt: a tool call naming any tool of the session tool set is looked up
\* and executed even when the tool's category was not among the categories
\* classified for the goal.
C26_LookupStep ==
  (Executing /\ NextCall \in session_tools /\ vars' # vars)
    => /\ tool_output'.tool = NextCall
       /\ tool_output'.via = "execute_tool"

C26_PruningNeverBlocks == [][C26_LookupStep]_vars

\* A tool outside the pruned catalogue ran and returned ok.
C26_Witness ==
  /\ tool_output.via = "execute_tool"
  /\ tool_output.status = "ok"
  /\ tool_output.tool \in session_tools
  /\ Category(tool_output.tool) \notin relevant_categories
  /\ tool_output.tool \notin pruned_tool_defs

\* ------------------------------------ get_historical_confidence on its own
\* One call, for every log file, tool name and number of records considered.
HistorianInit ==
  /\ CONFIDENCE_THRESHOLD_GO = 80
  /\ CONFIDENCE_THRESHOLD_ASK = 50
  /\ EpisodeStart
  /\ ExecutorIdle
  /\ CreationIdle
  /\ FreshRegistry
  /\ relevant_categories = classify_intent({})
  /\ hist_pc = "called"
  /\ log_file \in LogFiles
  /\ hist_tool_name \in HistoryTools
  /\ HISTORY_RECORDS_TO_CONSIDER \in 1..2
  /\ lines_left = 0
  /\ relevant_records = <<>>
  /\ hist_result = NoScore
  /\ hist_raised = None
  /\ BackgroundIdle
  /\ UnitsIdle

HistorianNext == HistorianOpen \/ HistorianLine \/ HistorianReturn

SpecHistorian == HistorianInit /\ [][HistorianNext]_vars

\* ==================================================================== C27
\* C27: get_historical_confidence returns a value in [0,1] for every log
\* content and tool name, and returns the neutral default 0.8 (never an
\* error) when the log file does not exist, is empty, or contains no record
\* for the tool.
C27_InUnitInterval(score) ==
  /\ score.den > 0
  /\ score.twice_power > 0
  /\ 0 <= score.num
  /\ score.num <= score.den

C27_NoRecordForTool ==
  \A i \in 1..Len(log_file.lines) :
    ~(log_file.lines[i].kind = "object"
      /\ log_file.lines[i].tool_name = hist_tool_name)

C27_HistoricalConfidenceBounded ==
  /\ hist_pc # "raised"
  /\ hist_pc = "returned"
       => /\ C27_InUnitInterval(hist_result)
          /\ (~log_file.exists \/ (log_file.readable /\ C27_NoRecordForTool))
               => hist_result = Score(8, 10, 2)

\* ------------------------------------------ plans with any reported number
\* One plan after another, the "confidence" field holding numbers inside and
\* outside 0..10.
ReportedNumbers == {-3, 0, 5, 10, 15}

NumberedResponses ==
  {[block |-> "dict", confidence |-> c, tool_calls |-> t, answer |-> FALSE] :
     c \in {[shape |-> "absent", value |-> 0]}
             \cup {[shape |-> "number", value |-> v] : v \in ReportedNumbers},
     t \in ToolCallsFields}

NumberedPlanResponse == PlanResponseFrom(NumberedResponses)

SpecNumbered == ResolvedInit /\ [][NumberedPlanResponse]_vars

\* ==================================================================== C28
\* C28: the confidence value the gating decision compares with the
\* thresholds lies in [0,1] for every parsed plan, whatever number the model
\* reported (also above 10 or below 0) and when the field is absent.
C28_GatedStep ==
  (pc = "loop" /\ response_kind' = "plan" /\ llm_calls' = llm_calls + 1)
    => (0 <= model_confidence' /\ model_confidence' <= 100)

C28_ConfidenceInUnitInterval == [][C28_GatedStep]_vars

\* ------------------------------------------ one component and its callers
BackgroundInit ==
  /\ CONFIDENCE_THRESHOLD_GO = 80
  /\ CONFIDENCE_THRESHOLD_ASK = 50
  /\ EpisodeStart
  /\ ExecutorIdle
  /\ CreationIdle
  /\ HistorianIdle
  /\ UnitsIdle
  /\ FreshRegistry
  /\ relevant_categories = classify_intent({})
  /\ component \in Components
  /\ lock_holder = None
  /\ worker_pc = "sleeping"
  /\ caller_pc = Idle
  /\ shared_lists = [l \in ListsOf(component) |-> {}]
  /\ published = None
  /\ access = NoAccess

BackgroundNext ==
  \/ WorkerCall
  \/ WorkerReturn
  \/ WorkerAcquire
  \/ WorkerStore
  \/ WorkerRelease
  \/ GetAcquire
  \/ GetCopy
  \/ DismissAcquire
  \/ DismissRebuild
  \/ CallerRelease
  \/ ApproveRead

SpecBackground == BackgroundInit /\ [][BackgroundNext]_vars

\* ==================================================================== C29
\* C29: background components expose their shared state only as snapshots
\* taken under their own lock: every read and every write of
\* pending_suggestions, health_alerts, actions and the email lists by any
\* thread happens while that component's lock is held, and callers get a
\* copy, never the internal list.
C29_SnapshotsUnderLock ==
  /\ access.thread # None => access.locked
  /\ published \in {None, "copy"}

\* ==================================================================== C30
\* C30: no thread holds a component lock while it is inside a blocking
\* network, LLM or tool call: whenever a background worker is waiting on
\* such a call, its lock is not held by it, and a caller can take it.
C30_NoLockAcrossBlockingCall ==
  worker_pc = "blocking" => lock_holder # "worker"

\* A caller is inside the with block while the worker waits on its call.
C30_Witness ==
  /\ worker_pc = "blocking"
  /\ lock_holder = "caller"
  /\ caller_pc = "get_locked"

\* ==================================================================== C31
\* C31: within an episode the scratchpad is append-only: the scratchpad
\* serialised into the prompt of a turn has the scratchpad of the turn before
\* as a prefix; it is the episode's own list and starts empty.
C31_StartsEmpty ==
  llm_calls = 0 => internal_scratchpad = [odd |-> FALSE, last |-> Entry(None)]

C31_AppendStep ==
  \/ internal_scratchpad' = internal_scratchpad
  \/ /\ internal_scratchpad'.odd # internal_scratchpad.odd
     /\ internal_scratchpad'.last.kind # None

C32_BoundedLLMCalls == llm_calls <= max_turns_failsafe

\* ==================================================================== C33
\* C33: the consecutive-error count is reset to zero only by a turn whose
\* response parses into a plan with a non-empty tool_calls list, whatever the
\* gating decision; each empty response, server error, parse failure and
\* no-action response increments it, and rate-limit retries leave it
\* unchanged; hence the second of two such failure turns not separated by a
\* parsed plan aborts the episode, whatever their kinds.
C33_FailureKinds ==
  {"empty", "server_error", "no_json", "bad_json", "not_dict", "no_action"}

C33_CountStep ==
  /\ (llm_calls' = llm_calls + 1 /\ response_kind' \in C33_FailureKinds)
       => /\ consecutive_error_count' = consecutive_error_count + 1
          /\ IF consecutive_error_count >= 1
               THEN pc' = "done" /\ result' \in FailureMessages
               ELSE pc' = "loop"
  /\ (llm_calls' = llm_calls + 1 /\ response_kind' = "rate_limit")
       => /\ consecutive_error_count' = consecutive_error_count
          /\ pc' = "loop"
  /\ (consecutive_error_count' # consecutive_error_count /\ pc' # "raised")
       => /\ llm_calls' = llm_calls + 1
          /\ \/ response_kind' \in C33_FailureKinds
             \/ /\ response_kind' = "plan"
                /\ consecutive_error_count' = 0
                /\ decision' \in {"GO", "ASK", "STOP"}

AnyFinalAnswer == FinalAnswerFrom(Texts)

MarkerNext ==
  \/ GoPlanResponse
  \/ ExecuteToolCall
  \/ AnyFinalAnswer

SpecMarker == ResolvedInit /\ [][MarkerNext]_vars

\* ==================================================================== C34
\* C34: a response that holds "Final Answer:" anywhere ends the episode at
\* that turn, also when it holds a tool-call block: what is returned is the
\* text after the first marker (white space at its ends removed by strip), no
\* tool call of that response is executed and no gating decision is made.
C34_AfterFirstMarker(text, returned) ==
  \E i \in 1..Len(text) :
    /\ text[i] = Marker
    /\ \A j \in 1..(i - 1) : text[j] # Marker
    /\ \E a \in (i + 1)..(Len(text) + 1), b \in i..Len(text) :
         /\ returned = SubSeq(text, a, b)
         /\ \A j \in ((i + 1)..(a - 1)) \cup ((b + 1)..Len(text)) :
              text[j] = Space
         /\ returned # <<>> =>
              /\ returned[1] # Space
              /\ returned[Len(returned)] # Space

C34_FinalStep ==
  (llm_calls' = llm_calls + 1 /\ ContainsMarker(ai_response_text')) =>
    /\ pc' = "done"
    /\ result' = MSG_FINAL
    /\ C34_AfterFirstMarker(ai_response_text', final_answer')
    /\ executed_tools' = executed_tools
    /\ invocations' = invocations
    /\ all_tool_outputs' = <<>>
    /\ tool_calls' = <<>>
    /\ decision' = None
    /\ turn_count' = turn_count + 1

C34_Ended ==
  ContainsMarker(ai_response_text) =>
    /\ pc = "done"
    /\ result = MSG_FINAL
    /\ decision = None

C34_FinalAnswerWins == []C34_Ended /\ [][C34_FinalStep]_vars

\* An episode that ran a tool, then received a response with a tool-call
\* block ahead of two markers: it ended with the text between and after them.
C34_Witness ==
  /\ pc = "done"
  /\ executed_tools # {}
  /\ ai_response_text = <<Block, Marker, Marker>>
  /\ final_answer = <<Marker>>

\* ==================================================================== C35
\* C35: the tools_used of the MemoryRecord written when an episode ends are
\* the names of the tools whose callable was executed in the episode; a name
\* that was not found in the session tool set (so that no callable was ever
\* looked up for it) is not recorded as used. Stated through what every
\* executed callable needs: its name was found in the session tool set.
C35_ToolsUsedWereExecuted ==
  \A i \in 1..Len(memory) : memory[i].tools_used \subseteq session_tools

\* ------------------------------------------- two episodes, one handler slot
\* Two episodes that ask for confirmation, and the user's answers, delivered
\* through the global of commands/agent.py or through the one of main.py.
SharedSlotNext ==
  \/ \E e \in Episodes :
       \/ CreateHandler(e)
       \/ ReadHandler(e)
       \/ HandlerWake(e)
       \/ ClearHandler(e)
  \/ \E r \in 1..MaxRequests :
       \/ SlotSetResponse(r)
       \/ UiSetUserConfirmation(r)

SpecSharedSlot == ResolvedInit /\ [][SharedSlotNext]_vars

\* ==================================================================== C36
\* C36: a confirmation response is applied only to the request it was issued
\* for: a handler is resolved by no other request's answer (also when the
\* answer arrives after its own request timed out), and an episode that asked
\* finds its own handler in the shared slot for as long as it waits, whatever
\* another episode creates or clears.
C36_ResponseReachesOwnRequest ==
  /\ \A h \in 1..Len(handler_objects) :
       handler_objects[h].answered_by \in {NoRequest, h}
  /\ \A e \in Episodes :
       /\ episodes[e].pc # "raised"
       /\ episodes[e].pc = "waiting" =>
            /\ episodes[e].waiting_on = episodes[e].own
            /\ shared_handler = episodes[e].own

\* ----------------------------------------- dynamic tools under static names
\* Registrations under new and under static names, episodes that merge the
\* two registries, and destructive checks of the merged tools.
ShadowNext ==
  \/ \E name \in RegistrableNames : RegisterDefinition(name)
  \/ MergeSessionTools
  \/ \E name \in RegistrableNames : CheckDestructive(name)

SpecShadow == ResolvedInit /\ [][ShadowNext]_vars

\* ==================================================================== C37
\* C37: dynamic registration never modifies TOOL_DEFINITIONS; in the merged
\* session tool set a dynamic definition takes precedence over the static
\* definition of the same name; the destructive check goes by the tool name
\* only and answers the same for a shadowing as for the shadowed definition.
C37_StaticUntouched ==
  /\ DOMAIN static_definitions = TOOL_DEFINITIONS
  /\ \A n \in TOOL_DEFINITIONS : static_definitions[n].origin = "static"

C37_MergeStep ==
  session_definitions' # session_definitions =>
    /\ DOMAIN session_definitions' =
         TOOL_DEFINITIONS \cup DOMAIN dynamic_definitions
    /\ \A n \in DOMAIN session_definitions' :
         session_definitions'[n].origin =
           IF n \in DOMAIN dynamic_definitions THEN "dynamic" ELSE "static"

C37_NameDecides ==
  destructive_answer # NoAnswer =>
    destructive_answer.is_destructive =
      (destructive_answer.name \in
         {"execute_shell_command", "delete_junk_file", "create_new_tool",
          "execute_generated_python_script"})

C37_DynamicShadowsStatic ==
  [](C37_StaticUntouched /\ C37_NameDecides) /\ [][C37_MergeStep]_vars

\* A dynamic tool registered as execute_shell_command is the one the session
\* holds, and the plan that calls it is still found destructive.
C37_Witness ==
  /\ "execute_shell_command" \in DOMAIN session_definitions
  /\ session_definitions["execute_shell_command"].origin = "dynamic"
  /\ static_definitions["execute_shell_command"].origin = "static"
  /\ destructive_answer =
       [name |-> "execute_shell_command", is_destructive |-> TRUE,
        origin |-> "dynamic"]

\* ------------------------------------------------ a component's lists fill
\* One component whose worker stores items and whose user dismisses some.
ListsInit ==
  /\ CONFIDENCE_THRESHOLD_GO = 80
  /\ CONFIDENCE_THRESHOLD_ASK = 50
  /\ EpisodeStart
  /\ ExecutorIdle
  /\ CreationIdle
  /\ HistorianIdle
  /\ ConfirmationsIdle
  /\ ShadowingIdle
  /\ SuggestionsIdle
  /\ LifecycleIdle
  /\ FreshRegistry
  /\ relevant_categories = classify_intent({})
  /\ component \in ListedComponents
  /\ lock_holder = None
  /\ worker_pc = "sleeping"
  /\ caller_pc = Idle
  /\ shared_lists = [l \in ListsOf(component) |-> {}]
  /\ published = None
  /\ access = NoAccess
  /\ list_items = [l \in ListsOf(component) |-> <<>>]
  /\ created = [l \in ListsOf(component) |-> 0]
  /\ fetches = 0
  /\ dismissals = 0

ListsNext ==
  \/ AppendTrimmed
  \/ CheckEmails
  \/ DismissItem

SpecLists == ListsInit /\ [][ListsNext]_vars

\* ==================================================================== C38
\* C38: the notification lists are bounded in every state reached between
\* the with blocks of workers and callers: health_alerts and actions hold at
\* most 20 entries and an append keeps the most recent ones (the new entry
\* and the newest of the old ones); important_emails holds at most 20 and
\* other_emails at most 50.
C38_Bounded ==
  \A l \in DOMAIN list_items :
    Len(list_items[l]) <= (IF l = "other_emails" THEN 50 ELSE 20)

C38_AppendStep ==
  \A l \in DOMAIN list_items \cap {"health_alerts", "actions"} :
    created'[l] # created[l] =>
      LET old == Append(list_items[l], created'[l])
          new == list_items'[l]
          n == IF Len(old) <= 20 THEN Len(old) ELSE 20
      IN  /\ Len(new) = n
          /\ \A i \in 1..n : new[i] = old[Len(old) - n + i]

C38_ListsBounded == []C38_Bounded /\ [][C38_AppendStep]_vars

\* health_alerts is full after the oldest alerts were trimmed away and one
\* alert was dismissed.
C38_Witness ==
  /\ component = "SystemHealthMonitor"
  /\ Len(list_items["health_alerts"]) = 20
  /\ created["health_alerts"] = 22
  /\ dismissals = 1
  /\ Head(list_items["health_alerts"]) = 2

\* ------------------------------------------------ the analyzer at work
\* The analyzer's thread, the user who dismisses suggestions, and the clock.
AnalyzerNext ==
  \/ \E id \in SuggestionIds : AnalyzeCheck(id)
  \/ AnalyzeStore
  \/ \E id \in SuggestionIds : DismissSuggestion(id)
  \/ ClockAdvance

SpecAnalyzer == ResolvedInit /\ [][AnalyzerNext]_vars

\* ==================================================================== C39
\* C39: AgentAnalyzer never holds two pending suggestions with the same id,
\* and an id that was suggested is not added again before 3600 s have passed
\* since it was last added, also when the user dismissed it in between.
C39_NoDuplicates ==
  \A i, j \in 1..Len(pending_suggestions) :
    pending_suggestions[i] = pending_suggestions[j] => i = j

C39_AddStep ==
  \A id \in SuggestionIds :
    (/\ \E i \in 1..Len(pending_suggestions') : pending_suggestions'[i] = id
     /\ \A i \in 1..Len(pending_suggestions) : pending_suggestions[i] # id)
      => /\ now - suggestion_history[id] >= 3600
         /\ suggestion_history'[id] = now

C39_SuggestionCooldown == []C39_NoDuplicates /\ [][C39_AddStep]_vars

\* new_tool_1 was suggested and dismissed and its cooldown still runs, while
\* a later analysis has just added new_tool_2.
C39_Witness ==
  /\ pending_suggestions = <<"new_tool_2">>
  /\ suggestion_history["new_tool_1"] = SUGGESTION_COOLDOWN
  /\ suggestion_history["new_tool_2"] = now
  /\ now = SUGGESTION_COOLDOWN + 3 * AnalysisInterval
  /\ analyzer = AnalyzerWaiting

\* ------------------------------------------------ start and stop, raced
\* One component, two threads that call its start and stop, and its workers.
LifecycleInit ==
  /\ CONFIDENCE_THRESHOLD_GO = 80
  /\ CONFIDENCE_THRESHOLD_ASK = 50
  /\ EpisodeStart
  /\ ExecutorIdle
  /\ CreationIdle
  /\ HistorianIdle
  /\ UnitsIdle
  /\ FreshRegistry
  /\ relevant_categories = classify_intent({})
  /\ component \in Components \ {"SystemMonitor"}
  /\ lock_holder = None
  /\ worker_pc = "sleeping"
  /\ caller_pc = Idle
  /\ shared_lists = [l \in ListsOf(component) |-> {}]
  /\ published = None
  /\ access = NoAccess

LifecycleNext ==
  \/ \E t \in ControlThreads :
       \/ StartCheck(t)
       \/ StartSet(t)
       \/ StartSpawn(t)
       \/ StopCheck(t)
       \/ StopClear(t)
       \/ StopJoin(t)
       \/ JoinReturn(t)
  \/ \E w \in 1..MaxThreads : WorkerExit(w)

SpecLifecycle == LifecycleInit /\ [][LifecycleNext]_vars

\* ==================================================================== C40
\* C40: AgentAnalyzer, SystemHealthMonitor and GmailBot each have at most one
\* live worker thread at any time, however the start and stop calls of
\* different threads interleave: a start on a running component spawns
\* nothing, and when stop returns the previous worker has finished.
C40_OneWorker == Cardinality(live_workers) <= 1

C40_StopStep ==
  \A t \in ControlThreads :
    (control[t].pc \in {"stop_join", "joining"} /\ control'[t].pc = Idle)
      => live_workers' = {}

C40_AtMostOneWorker == []C40_OneWorker /\ [][C40_StopStep]_vars

====
